---- MODULE Spec2Model ----
(***************************************************************************)
(* Model of datacube/model/lineage.py: LineageDirection, LineageTree,      *)
(* LineageRelation and the LineageRelations collection with its merge,     *)
(* extract and diff operations.                                            *)
(*                                                                         *)
(* Python values are represented as follows.                               *)
(*   - a dict is a sequence of <<key, value>> pairs in insertion order;    *)
(*   - None (for a home) is the string "None";                             *)
(*   - LineageTree.children is a record [is_none, items]: is_none = TRUE   *)
(*     is children=None, otherwise items is the dict classifier -> list    *)
(*     of child trees;                                                     *)
(*   - an operation that can raise returns the collection as it is when    *)
(*     the exception leaves the method, with the exception in field err.   *)
(***************************************************************************)
EXTENDS Integers, Sequences, FiniteSets, TLC

(* ----------------------------- universe ------------------------------- *)
Ids == {"U1", "U2", "U3"}
Classifiers == {"nbar", "level1"}
None == "None"
HomeNames == {"h1", "h2"}
HomeValues == HomeNames \cup {None}

\* Number of operations performed on the collection in one behaviour.
MaxOps == 2

(* -------------------------- LineageDirection -------------------------- *)
SOURCES == "SOURCES"
DERIVED == "DERIVED"
Directions == {SOURCES, DERIVED}

opposite(self) == IF self = SOURCES THEN DERIVED ELSE SOURCES

(* ------------------------------ dicts --------------------------------- *)
Keys(d) == {d[i][1] : i \in DOMAIN d}
Has(d, k) == \E i \in DOMAIN d : d[i][1] = k
Get(d, k) == d[CHOOSE i \in DOMAIN d : d[i][1] = k][2]
GetOr(d, k, default) == IF Has(d, k) THEN Get(d, k) ELSE default
Put(d, k, v) ==
    IF Has(d, k)
    THEN [i \in DOMAIN d |-> IF d[i][1] = k THEN <<k, v>> ELSE d[i]]
    ELSE Append(d, <<k, v>>)

(* ---------------------------- LineageTree ----------------------------- *)
ChildrenNone == [is_none |-> TRUE, items |-> <<>>]
ChildrenDict(items) == [is_none |-> FALSE, items |-> items]
ChildrenEmpty == ChildrenDict(<<>>)

LineageTree(direction, dataset_id, children, home) ==
    [direction |-> direction, dataset_id |-> dataset_id,
     children |-> children, home |-> home]

\* bool(node.children): neither None nor an empty dict
HasChildren(node) == ~node.children.is_none /\ node.children.items # <<>>

\* The (classifier, child) pairs in the order of
\*   for classifier, children in tree.children.items(): for child in children
RECURSIVE FlattenItems(_)
FlattenItems(items) ==
    IF items = <<>> THEN <<>>
    ELSE LET classifier == items[1][1]
             children == items[1][2]
         IN [i \in 1..Len(children) |-> <<classifier, children[i]>>]
            \o FlattenItems(Tail(items))

ChildList(tree) ==
    IF tree.children.is_none THEN <<>> ELSE FlattenItems(tree.children.items)

\* child_datasets with the id of a node looked for among its children only,
\* not among their descendants
RECURSIVE child_datasets_children_only(_)
child_datasets_children_only(self) ==
    LET kids == ChildList(self)
        sub == [i \in DOMAIN kids |-> child_datasets_children_only(kids[i][2])]
        subchildren(i) == sub[i].ids \cup {kids[i][2].dataset_id}
        raised == \E i \in DOMAIN kids :
                      sub[i].raised \/ self.dataset_id = kids[i][2].dataset_id
    IN IF raised THEN [raised |-> TRUE, ids |-> {}]
       ELSE [raised |-> FALSE, ids |-> UNION {subchildren(i) : i \in DOMAIN kids}]

\* LineageTree.child_datasets: [raised, ids]
RECURSIVE child_datasets(_)
child_datasets(self) ==
    LET kids == ChildList(self)
        sub == [i \in DOMAIN kids |-> child_datasets(kids[i][2])]
        subchildren(i) == sub[i].ids \cup {kids[i][2].dataset_id}
        raised == \E i \in DOMAIN kids :
                      sub[i].raised \/ self.dataset_id \in subchildren(i)
    IN IF raised THEN [raised |-> TRUE, ids |-> {}]
       ELSE [raised |-> FALSE, ids |-> UNION {subchildren(i) : i \in DOMAIN kids}]

(* -------------------------- LineageRelation --------------------------- *)
LineageRelation(classifier, source_id, derived_id) ==
    [classifier |-> classifier, source_id |-> source_id, derived_id |-> derived_id]

(* -------------------------- LineageRelations -------------------------- *)
NoError == "none"

\* LineageRelations.__init__ before the initial merges
EmptyRelations ==
    [homes |-> <<>>, relations_idx |-> <<>>, trees_idx |-> <<>>,
     relations |-> <<>>, by_source |-> <<>>, by_derived |-> <<>>,
     dataset_ids |-> {}, err |-> NoError]

Raise(st, kind) == [st EXCEPT !.err = kind]

\* children[classifier].append(subtree) / children[classifier] = [subtree]
AddSubtree(children, classifier, subtree) ==
    IF Has(children, classifier)
    THEN Put(children, classifier, Append(Get(children, classifier), subtree))
    ELSE Append(children, <<classifier, <<subtree>>>>)

RECURSIVE GroupSubtrees(_, _, _)
GroupSubtrees(subtrees, subs, children) ==
    IF subtrees = <<>> THEN children
    ELSE GroupSubtrees(Tail(subtrees), Tail(subs),
                       AddSubtree(children, subtrees[1][2], subs[1].tree))

\* Subtrees with the two adjacency dicts exchanged
SubtreesExchanged(st, root, direction) ==
    IF direction = SOURCES
    THEN GetOr(st.by_derived, root, <<>>)
    ELSE GetOr(st.by_source, root, <<>>)

\* The adjacency dict extract_tree walks for a direction
Subtrees(st, root, direction) ==
    IF direction = SOURCES
    THEN GetOr(st.by_source, root, <<>>)
    ELSE GetOr(st.by_derived, root, <<>>)

\* extract_tree with one so_far set shared by all branches: seen is the set
\* as the call leaves it
RECURSIVE ExtractShared(_, _, _, _), ExtractSharedSubtrees(_, _, _, _, _)
ExtractShared(st, root, direction, so_far) ==
    IF root \in so_far
    THEN [raised |-> TRUE, seen |-> so_far,
          tree |-> LineageTree(direction, root, ChildrenNone, None)]
    ELSE LET below == ExtractSharedSubtrees(st, Subtrees(st, root, direction),
                                           direction, so_far \cup {root}, <<>>)
         IN IF below.raised
            THEN [raised |-> TRUE, seen |-> below.seen,
                  tree |-> LineageTree(direction, root, ChildrenNone, None)]
            ELSE [raised |-> FALSE, seen |-> below.seen,
                  tree |-> LineageTree(direction, root, ChildrenDict(below.children),
                                       GetOr(st.homes, root, None))]

ExtractSharedSubtrees(st, subtrees, direction, so_far, children) ==
    IF subtrees = <<>>
    THEN [raised |-> FALSE, seen |-> so_far, children |-> children]
    ELSE LET sub == ExtractShared(st, subtrees[1][1], direction, so_far)
         IN IF sub.raised
            THEN [raised |-> TRUE, seen |-> sub.seen, children |-> children]
            ELSE ExtractSharedSubtrees(st, Tail(subtrees), direction, sub.seen,
                                       AddSubtree(children, subtrees[1][2], sub.tree))

extract_tree_shared_so_far(st, root, direction, so_far) ==
    LET r == ExtractShared(st, root, direction, so_far)
    IN [raised |-> r.raised, tree |-> r.tree]

\* extract_tree with every node given home None
RECURSIVE extract_tree_without_homes(_, _, _, _)
extract_tree_without_homes(st, root, direction, so_far) ==
    IF root \in so_far
    THEN [raised |-> TRUE, tree |-> LineageTree(direction, root, ChildrenNone, None)]
    ELSE LET so_far2 == so_far \cup {root}
             subtrees == Subtrees(st, root, direction)
             subs == [i \in DOMAIN subtrees |->
                         extract_tree_without_homes(st, subtrees[i][1], direction, so_far2)]
         IN IF \E i \in DOMAIN subs : subs[i].raised
            THEN [raised |-> TRUE,
                  tree |-> LineageTree(direction, root, ChildrenNone, None)]
            ELSE [raised |-> FALSE,
                  tree |-> LineageTree(direction, root,
                               ChildrenDict(GroupSubtrees(subtrees, subs, <<>>)),
                               None)]

\* LineageRelations.extract_tree: [raised, tree]
RECURSIVE extract_tree(_, _, _, _)
extract_tree(st, root, direction, so_far) ==
    IF root \in so_far
    THEN [raised |-> TRUE, tree |-> LineageTree(direction, root, ChildrenNone, None)]
    ELSE LET so_far2 == so_far \cup {root}
             subtrees == Subtrees(st, root, direction)
             subs == [i \in DOMAIN subtrees |->
                         extract_tree(st, subtrees[i][1], direction, so_far2)]
         IN IF \E i \in DOMAIN subs : subs[i].raised
            THEN [raised |-> TRUE,
                  tree |-> LineageTree(direction, root, ChildrenNone, None)]
            ELSE [raised |-> FALSE,
                  tree |-> LineageTree(direction, root,
                               ChildrenDict(GroupSubtrees(subtrees, subs, <<>>)),
                               GetOr(st.homes, root, None))]

\* merge_new_home with a recorded None replaced by the home supplied
merge_new_home_replaces_none(st, id_, home) ==
    IF Has(st.homes, id_)
    THEN IF Get(st.homes, id_) # None /\ Get(st.homes, id_) # home
         THEN Raise(st, "InconsistentHome")
         ELSE IF Get(st.homes, id_) = None
         THEN [st EXCEPT !.homes = Put(@, id_, home)]
         ELSE st
    ELSE [st EXCEPT !.homes = Put(@, id_, home)]

\* LineageRelations.merge_new_home
merge_new_home(st, id_, home) ==
    IF Has(st.homes, id_)
    THEN IF Get(st.homes, id_) # None /\ Get(st.homes, id_) # home
         THEN Raise(st, "InconsistentHome")
         ELSE st
    ELSE [st EXCEPT !.homes = Put(@, id_, home)]

\* by_source[k1][k2] = classifier, creating by_source[k1] = {} when missing
PutNested(d, k1, k2, v) == Put(d, k1, Put(GetOr(d, k1, <<>>), k2, v))

\* merge_new_lineage_relation with the cycle check made on the collection as it
\* was before the relation was indexed
merge_new_lineage_relation_check_first(st, rel) ==
    LET ids == <<rel.source_id, rel.derived_id>>
    IN IF Has(st.relations_idx, ids)
       THEN IF Get(st.relations_idx, ids) # rel.classifier
            THEN Raise(st, "InconsistentClassifier")
            ELSE st
       ELSE LET added == [st EXCEPT
                    !.relations_idx = Put(@, ids, rel.classifier),
                    !.relations = Append(@, rel),
                    !.by_source = PutNested(@, rel.source_id, rel.derived_id, rel.classifier),
                    !.by_derived = PutNested(@, rel.derived_id, rel.source_id, rel.classifier)]
                new_ids == {rel.source_id, rel.derived_id}
            IN IF new_ids \cap st.dataset_ids # {}
                  /\ (extract_tree(st, rel.derived_id, SOURCES, {}).raised
                      \/ extract_tree(st, rel.source_id, DERIVED, {}).raised)
               THEN Raise(added, "CyclicGraph")
               ELSE [added EXCEPT !.dataset_ids = @ \cup new_ids]

\* merge_new_lineage_relation with a differing classifier replacing the
\* recorded one instead of raising
merge_new_lineage_relation_last_wins(st, rel) ==
    LET ids == <<rel.source_id, rel.derived_id>>
    IN IF Has(st.relations_idx, ids)
       THEN [st EXCEPT !.relations_idx = Put(@, ids, rel.classifier)]
       ELSE LET added == [st EXCEPT
                    !.relations_idx = Put(@, ids, rel.classifier),
                    !.relations = Append(@, rel),
                    !.by_source = PutNested(@, rel.source_id, rel.derived_id, rel.classifier),
                    !.by_derived = PutNested(@, rel.derived_id, rel.source_id, rel.classifier)]
                new_ids == {rel.source_id, rel.derived_id}
            IN IF new_ids \cap st.dataset_ids # {}
                  /\ (extract_tree(added, rel.derived_id, SOURCES, {}).raised
                      \/ extract_tree(added, rel.source_id, DERIVED, {}).raised)
               THEN Raise(added, "CyclicGraph")
               ELSE [added EXCEPT !.dataset_ids = @ \cup new_ids]

\* merge_new_lineage_relation with a known pair under its recorded classifier
\* appended to relations once more
merge_new_lineage_relation_appends_again(st, rel) ==
    LET ids == <<rel.source_id, rel.derived_id>>
    IN IF Has(st.relations_idx, ids)
       THEN IF Get(st.relations_idx, ids) # rel.classifier
            THEN Raise(st, "InconsistentClassifier")
            ELSE [st EXCEPT !.relations = Append(@, rel)]
       ELSE LET added == [st EXCEPT
                    !.relations_idx = Put(@, ids, rel.classifier),
                    !.relations = Append(@, rel),
                    !.by_source = PutNested(@, rel.source_id, rel.derived_id, rel.classifier),
                    !.by_derived = PutNested(@, rel.derived_id, rel.source_id, rel.classifier)]
                new_ids == {rel.source_id, rel.derived_id}
            IN IF new_ids \cap st.dataset_ids # {}
                  /\ (extract_tree(added, rel.derived_id, SOURCES, {}).raised
                      \/ extract_tree(added, rel.source_id, DERIVED, {}).raised)
               THEN Raise(added, "CyclicGraph")
               ELSE [added EXCEPT !.dataset_ids = @ \cup new_ids]

\* merge_new_lineage_relation with a relation that closes a cycle taken out of
\* relations and relations_idx again before the exception
merge_new_lineage_relation_half_undone(st, rel) ==
    LET ids == <<rel.source_id, rel.derived_id>>
    IN IF Has(st.relations_idx, ids)
       THEN IF Get(st.relations_idx, ids) # rel.classifier
            THEN Raise(st, "InconsistentClassifier")
            ELSE st
       ELSE LET added == [st EXCEPT
                    !.relations_idx = Put(@, ids, rel.classifier),
                    !.relations = Append(@, rel),
                    !.by_source = PutNested(@, rel.source_id, rel.derived_id, rel.classifier),
                    !.by_derived = PutNested(@, rel.derived_id, rel.source_id, rel.classifier)]
                new_ids == {rel.source_id, rel.derived_id}
            IN IF new_ids \cap st.dataset_ids # {}
                  /\ (extract_tree(added, rel.derived_id, SOURCES, {}).raised
                      \/ extract_tree(added, rel.source_id, DERIVED, {}).raised)
               THEN Raise([added EXCEPT !.relations_idx = st.relations_idx,
                                        !.relations = st.relations], "CyclicGraph")
               ELSE [added EXCEPT !.dataset_ids = @ \cup new_ids]

\* merge_new_lineage_relation with the new classifier written to
\* relations_idx before the exception for a pair recorded with another
merge_new_lineage_relation_overwrites(st, rel) ==
    LET ids == <<rel.source_id, rel.derived_id>>
    IN IF Has(st.relations_idx, ids)
       THEN IF Get(st.relations_idx, ids) # rel.classifier
            THEN Raise([st EXCEPT !.relations_idx = Put(@, ids, rel.classifier)],
                       "InconsistentClassifier")
            ELSE st
       ELSE LET added == [st EXCEPT
                    !.relations_idx = Put(@, ids, rel.classifier),
                    !.relations = Append(@, rel),
                    !.by_source = PutNested(@, rel.source_id, rel.derived_id, rel.classifier),
                    !.by_derived = PutNested(@, rel.derived_id, rel.source_id, rel.classifier)]
                new_ids == {rel.source_id, rel.derived_id}
            IN IF new_ids \cap st.dataset_ids # {}
                  /\ (extract_tree(added, rel.derived_id, SOURCES, {}).raised
                      \/ extract_tree(added, rel.source_id, DERIVED, {}).raised)
               THEN Raise(added, "CyclicGraph")
               ELSE [added EXCEPT !.dataset_ids = @ \cup new_ids]

\* merge_new_lineage_relation with the source_id alone added to dataset_ids
merge_new_lineage_relation_knows_source_only(st, rel) ==
    LET ids == <<rel.source_id, rel.derived_id>>
    IN IF Has(st.relations_idx, ids)
       THEN IF Get(st.relations_idx, ids) # rel.classifier
            THEN Raise(st, "InconsistentClassifier")
            ELSE st
       ELSE LET added == [st EXCEPT
                    !.relations_idx = Put(@, ids, rel.classifier),
                    !.relations = Append(@, rel),
                    !.by_source = PutNested(@, rel.source_id, rel.derived_id, rel.classifier),
                    !.by_derived = PutNested(@, rel.derived_id, rel.source_id, rel.classifier)]
                new_ids == {rel.source_id, rel.derived_id}
            IN IF new_ids \cap st.dataset_ids # {}
                  /\ (extract_tree(added, rel.derived_id, SOURCES, {}).raised
                      \/ extract_tree(added, rel.source_id, DERIVED, {}).raised)
               THEN Raise(added, "CyclicGraph")
               ELSE [added EXCEPT !.dataset_ids = @ \cup {rel.source_id}]

\* LineageRelations.merge_new_lineage_relation
merge_new_lineage_relation(st, rel) ==
    LET ids == <<rel.source_id, rel.derived_id>>
    IN IF Has(st.relations_idx, ids)
       THEN IF Get(st.relations_idx, ids) # rel.classifier
            THEN Raise(st, "InconsistentClassifier")
            ELSE st
       ELSE LET added == [st EXCEPT
                    !.relations_idx = Put(@, ids, rel.classifier),
                    !.relations = Append(@, rel),
                    !.by_source = PutNested(@, rel.source_id, rel.derived_id, rel.classifier),
                    !.by_derived = PutNested(@, rel.derived_id, rel.source_id, rel.classifier)]
                new_ids == {rel.source_id, rel.derived_id}
            IN IF new_ids \cap st.dataset_ids # {}
                  /\ (extract_tree(added, rel.derived_id, SOURCES, {}).raised
                      \/ extract_tree(added, rel.source_id, DERIVED, {}).raised)
               THEN Raise(added, "CyclicGraph")
               ELSE [added EXCEPT !.dataset_ids = @ \cup new_ids]

\* LineageRelations._merge_new_relation
merge_new_relation(st, ids, classifier) ==
    merge_new_lineage_relation(st, LineageRelation(classifier, ids[1], ids[2]))

\* _merge_new_node with the guard keyed by the source id of the pair alone
merge_new_node_keyed_by_source(st, ids, node) ==
    IF HasChildren(node)
    THEN IF \E i \in DOMAIN st.trees_idx : st.trees_idx[i][1][1] = ids[1]
         THEN Raise(st, "DuplicateSubtree")
         ELSE [st EXCEPT !.trees_idx = Put(@, ids, node)]
    ELSE st

\* _merge_new_node with a second subtree replacing the registered one
merge_new_node_never_rejects(st, ids, node) ==
    IF HasChildren(node)
    THEN [st EXCEPT !.trees_idx = Put(@, ids, node)]
    ELSE st

\* _merge_new_node storing the second subtree before it raises
merge_new_node_keeps_last(st, ids, node) ==
    IF HasChildren(node)
    THEN IF Has(st.trees_idx, ids)
         THEN Raise([st EXCEPT !.trees_idx = Put(@, ids, node)], "DuplicateSubtree")
         ELSE [st EXCEPT !.trees_idx = Put(@, ids, node)]
    ELSE st

\* LineageRelations._merge_new_node
merge_new_node(st, ids, node) ==
    IF HasChildren(node)
    THEN IF Has(st.trees_idx, ids)
         THEN Raise(st, "DuplicateSubtree")
         ELSE [st EXCEPT !.trees_idx = Put(@, ids, node)]
    ELSE st

\* ids = (tree.dataset_id, child.dataset_id) for SOURCES, reversed for DERIVED
TreeIds(direction, parent_id, child_id) ==
    IF direction = SOURCES THEN <<parent_id, child_id>> ELSE <<child_id, parent_id>>

\* merge_tree: recurse / next_max_depth as determined before the loop
Recurse(has_parent, max_depth) == ~(has_parent /\ max_depth = 1)
NextMaxDepth(has_parent, max_depth) ==
    IF ~has_parent THEN max_depth
    ELSE IF max_depth = 0 THEN 0
    ELSE max_depth - 1

\* LineageRelations.merge_tree; MergeChildren is its loop over the children
RECURSIVE merge_tree(_, _, _, _), MergeChildren(_, _, _, _, _)
\* merge_tree with the id of a node without children added to dataset_ids
merge_tree_records_childless(st, tree, has_parent, max_depth) ==
    IF child_datasets(tree).raised THEN Raise(st, "CyclicTree")
    ELSE LET homed == merge_new_home(st, tree.dataset_id, tree.home)
         IN IF homed.err # NoError THEN homed
            ELSE IF ~HasChildren(tree)
                    /\ extract_tree(homed, tree.dataset_id,
                                    opposite(tree.direction), {}).raised
            THEN Raise(homed, "CyclicGraph")
            ELSE IF ~HasChildren(tree)
            THEN [homed EXCEPT !.dataset_ids = @ \cup {tree.dataset_id}]
            ELSE MergeChildren(homed, tree, ChildList(tree),
                               Recurse(has_parent, max_depth),
                               NextMaxDepth(has_parent, max_depth))

\* merge_tree with the home of the root merged before child_datasets is called
merge_tree_home_before_check(st, tree, has_parent, max_depth) ==
    LET homed == merge_new_home(st, tree.dataset_id, tree.home)
    IN IF homed.err # NoError THEN homed
       ELSE IF child_datasets(tree).raised THEN Raise(homed, "CyclicTree")
       ELSE IF ~HasChildren(tree)
               /\ extract_tree(homed, tree.dataset_id,
                               opposite(tree.direction), {}).raised
       THEN Raise(homed, "CyclicGraph")
       ELSE IF tree.children.is_none THEN homed
       ELSE MergeChildren(homed, tree, ChildList(tree),
                          Recurse(has_parent, max_depth),
                          NextMaxDepth(has_parent, max_depth))

merge_tree(st, tree, has_parent, max_depth) ==
    IF child_datasets(tree).raised THEN Raise(st, "CyclicTree")
    ELSE LET homed == merge_new_home(st, tree.dataset_id, tree.home)
         IN IF homed.err # NoError THEN homed
            ELSE IF ~HasChildren(tree)
                    /\ extract_tree(homed, tree.dataset_id,
                                    opposite(tree.direction), {}).raised
            THEN Raise(homed, "CyclicGraph")
            ELSE IF tree.children.is_none THEN homed
            ELSE MergeChildren(homed, tree, ChildList(tree),
                               Recurse(has_parent, max_depth),
                               NextMaxDepth(has_parent, max_depth))

\* The loop of merge_tree with the direction of a child looked at after its
\* relation is merged
MergeChildrenDirectionCheckedLate(st, tree, kids, recurse, next_max_depth) ==
    IF kids = <<>> THEN st
    ELSE LET classifier == kids[1][1]
             child == kids[1][2]
             ids == TreeIds(tree.direction, tree.dataset_id, child.dataset_id)
             related == merge_new_relation(st, ids, classifier)
             noded == merge_new_node(related, ids, child)
             merged == IF recurse THEN merge_tree(noded, child, TRUE, next_max_depth)
                       ELSE noded
         IN IF related.err # NoError THEN related
            ELSE IF child.direction # tree.direction THEN Raise(related, "MixedDirection")
            ELSE IF noded.err # NoError THEN noded
            ELSE IF merged.err # NoError THEN merged
            ELSE MergeChildren(merged, tree, Tail(kids), recurse, next_max_depth)

MergeChildren(st, tree, kids, recurse, next_max_depth) ==
    IF kids = <<>> THEN st
    ELSE LET classifier == kids[1][1]
             child == kids[1][2]
             ids == TreeIds(tree.direction, tree.dataset_id, child.dataset_id)
             related == merge_new_relation(st, ids, classifier)
             noded == merge_new_node(related, ids, child)
             merged == IF recurse THEN merge_tree(noded, child, TRUE, next_max_depth)
                       ELSE noded
         IN IF child.direction # tree.direction THEN Raise(st, "MixedDirection")
            ELSE IF related.err # NoError THEN related
            ELSE IF noded.err # NoError THEN noded
            ELSE IF merged.err # NoError THEN merged
            ELSE MergeChildren(merged, tree, Tail(kids), recurse, next_max_depth)

\* LineageRelations.merge: its three loops
RECURSIVE MergeHomes(_, _)
MergeHomes(st, items) ==
    IF items = <<>> THEN st
    ELSE LET homed == merge_new_home(st, items[1][1], items[1][2])
         IN IF homed.err # NoError THEN homed ELSE MergeHomes(homed, Tail(items))

RECURSIVE MergeRelations(_, _)
MergeRelations(st, items) ==
    IF items = <<>> THEN st
    ELSE LET related == merge_new_relation(st, items[1][1], items[1][2])
         IN IF related.err # NoError THEN related
            ELSE MergeRelations(related, Tail(items))

RECURSIVE MergeNodes(_, _)
MergeNodes(st, items) ==
    IF items = <<>> THEN st
    ELSE LET noded == merge_new_node(st, items[1][1], items[1][2])
         IN IF noded.err # NoError THEN noded ELSE MergeNodes(noded, Tail(items))

merge(st, pool) ==
    LET homed == MergeHomes(st, pool.homes)
        related == MergeRelations(homed, pool.relations_idx)
    IN IF homed.err # NoError THEN homed
       ELSE IF related.err # NoError THEN related
       ELSE MergeNodes(related, pool.trees_idx)

\* LineageRelations.__init__ with the tree merged before the clone
LineageRelationsTreeFirst(has_tree, tree, max_depth, has_clone, clone) ==
    LET treed == IF has_tree THEN merge_tree(EmptyRelations, tree, FALSE, max_depth)
                 ELSE EmptyRelations
    IN IF treed.err # NoError THEN treed
       ELSE IF has_clone THEN merge(treed, clone)
       ELSE treed

\* LineageRelations.__init__: LineageRelations(tree, max_depth, clone), where
\* has_tree = FALSE is tree=None and has_clone = FALSE is clone=None
LineageRelations(has_tree, tree, max_depth, has_clone, clone) ==
    LET cloned == IF has_clone THEN merge(EmptyRelations, clone) ELSE EmptyRelations
    IN IF cloned.err # NoError THEN cloned
       ELSE IF has_tree THEN merge_tree(cloned, tree, FALSE, max_depth)
       ELSE cloned

\* LineageRelations(tree=tree, max_depth=max_depth): no clone
NewFromTree(tree, max_depth) == merge_tree(EmptyRelations, tree, FALSE, max_depth)

\* LineageRelations(clone=clone): no tree
NewFromClone(clone) == merge(EmptyRelations, clone)

\* DiffNoExisting with the homes left out of what is to add
DiffNoExistingWithoutHomes(st) ==
    [err |-> NoError,
     relations_to_add |-> st.relations, relations_to_update |-> <<>>,
     homes_to_add |-> <<>>, homes_to_update |-> <<>>]

\* LineageRelations.relations_diff with existing_relations=None
DiffNoExisting(st) ==
    [err |-> NoError,
     relations_to_add |-> st.relations, relations_to_update |-> <<>>,
     homes_to_add |-> st.homes, homes_to_update |-> <<>>]

DiffRaise(kind) ==
    [err |-> kind,
     relations_to_add |-> <<>>, relations_to_update |-> <<>>,
     homes_to_add |-> <<>>, homes_to_update |-> <<>>]

\* The two loops shared by both branches of relations_diff.
\*   for id_, home in self._homes: iterates the keys of the dict, and a key is
\*     a UUID, which does not unpack into two names: TypeError at the first key.
\*   for ids, classifier in self._relations_idx: iterates the keys, each a pair
\*     of UUIDs, so ids is the first UUID and classifier the second; a UUID is
\*     never a key of existing_relations._relations_idx (its keys are pairs), so
\*     the add branch is taken and relations_to_add[ids] = classifier indexes a
\*     list by a UUID: TypeError at the first key.
DiffLoops(st) ==
    IF st.homes # <<>> THEN DiffRaise("TypeError")
    ELSE IF st.relations_idx # <<>> THEN DiffRaise("TypeError")
    ELSE [err |-> NoError,
          relations_to_add |-> <<>>, relations_to_update |-> <<>>,
          homes_to_add |-> <<>>, homes_to_update |-> <<>>]

\* LineageRelations.relations_diff with an existing_relations object
relations_diff(st, existing_relations, allow_updates) ==
    IF ~allow_updates
    THEN LET cloned == NewFromClone(st)
             merged == merge(cloned, existing_relations)
         IN IF cloned.err # NoError THEN DiffRaise(cloned.err)
            ELSE IF merged.err # NoError THEN DiffRaise(merged.err)
            ELSE DiffLoops(st)
    ELSE DiffLoops(st)


(* ------------------------------ inputs -------------------------------- *)
Leaf(direction, dataset_id, home) ==
    LineageTree(direction, dataset_id, ChildrenEmpty, home)
Placeholder(direction, dataset_id) ==
    LineageTree(direction, dataset_id, ChildrenNone, None)
OneChild(direction, dataset_id, classifier, child, home) ==
    LineageTree(direction, dataset_id,
                ChildrenDict(<< <<classifier, <<child>>>> >>), home)

\* A node alone: children None or {}, with or without a home
SingleTrees ==
    {Leaf(d, i, None) : d \in Directions, i \in Ids}
    \cup {Placeholder(SOURCES, i) : i \in Ids}
    \cup {Leaf(SOURCES, "U1", h) : h \in HomeNames}

\* A root and one child (a leaf or a placeholder); root = child is a cyclic tree
OneChildTrees ==
    {OneChild(SOURCES, r, "nbar", Leaf(SOURCES, k, None), None) : r \in Ids, k \in Ids}
    \cup {OneChild(DERIVED, p[1], "nbar", Leaf(DERIVED, p[2], None), None) :
             p \in {q \in Ids \X Ids : q[1] # q[2]}}
    \cup {OneChild(SOURCES, "U1", "level1", Leaf(SOURCES, "U2", None), None),
          OneChild(SOURCES, "U1", "nbar", Placeholder(SOURCES, "U2"), None),
          OneChild(SOURCES, "U2", "nbar", Placeholder(SOURCES, "U3"), "h1")}

\* A root, a child and a grandchild: the three ids distinct, or the grandchild
\* the root again (a cyclic tree)
ChainTrees ==
    {OneChild(SOURCES, p[1], "nbar",
              OneChild(SOURCES, p[2], "nbar", Leaf(SOURCES, p[3], None), None), None) :
        p \in {q \in Ids \X Ids \X Ids : q[1] # q[2] /\ q[2] # q[3] /\ q[1] # q[3]}}
    \cup {OneChild(d, "U1", "nbar",
                   OneChild(d, "U2", "level1", Leaf(d, l, None), None), None) :
             d \in Directions, l \in {"U1", "U3"}}

\* A root with two children under one classifier or under two
TwoChildTrees ==
    {LineageTree(SOURCES, "U1",
        ChildrenDict(<< <<"nbar", <<Leaf(SOURCES, "U2", None), Leaf(SOURCES, "U3", None)>>>> >>),
        None),
     LineageTree(SOURCES, "U1",
        ChildrenDict(<< <<"nbar", <<Leaf(SOURCES, "U2", None)>>>>,
                        <<"level1", <<Leaf(SOURCES, "U3", "h1")>>>> >>),
        "h2")}

\* A child whose direction is not its parent's
MixedTrees ==
    {OneChild(d, "U1", "nbar", Leaf(opposite(d), "U2", None), None) : d \in Directions}
    \cup {OneChild(SOURCES, "U1", "nbar",
                   OneChild(SOURCES, "U2", "nbar", Leaf(DERIVED, "U3", None), None), None)}

\* One edge given children with children of their own twice in one tree
DuplicateDetailTrees ==
    {LineageTree(SOURCES, "U1",
        ChildrenDict(<< <<"nbar",
            <<OneChild(SOURCES, "U2", "nbar", Leaf(SOURCES, "U3", None), None),
              OneChild(SOURCES, "U2", "nbar", Leaf(SOURCES, "U3", "h1"), None)>>>> >>),
        None)}

\* An id below itself elsewhere than at the root, an id twice among the
\* children of one node, and an id below itself three levels down
RepeatTrees ==
    {OneChild(SOURCES, "U1", "nbar",
              OneChild(SOURCES, "U2", "nbar", Leaf(SOURCES, "U2", None), None), None),
     LineageTree(SOURCES, "U1",
        ChildrenDict(<< <<"nbar", <<Placeholder(SOURCES, "U2"), Leaf(SOURCES, "U2", None)>>>> >>),
        None),
     OneChild(SOURCES, "U1", "nbar",
              OneChild(SOURCES, "U2", "nbar",
                       OneChild(SOURCES, "U3", "nbar", Leaf(SOURCES, "U3", None), None),
                       None), "h1")}

\* One id given two homes in one tree
HomeConflictTrees ==
    {LineageTree(SOURCES, "U1",
        ChildrenDict(<< <<"nbar", <<Leaf(SOURCES, "U2", "h1"), Leaf(SOURCES, "U2", "h2")>>>> >>),
        None)}

TreeInputs == SingleTrees \cup OneChildTrees \cup ChainTrees \cup TwoChildTrees
                  \cup MixedTrees \cup DuplicateDetailTrees \cup RepeatTrees
                  \cup HomeConflictTrees

RECURSIVE TreeDepth(_)
TreeDepth(tree) ==
    LET kids == ChildList(tree)
    IN IF kids = <<>> THEN 0
       ELSE 1 + CHOOSE n \in {TreeDepth(kids[i][2]) : i \in DOMAIN kids} :
                    \A i \in DOMAIN kids : TreeDepth(kids[i][2]) <= n

\* max_depth arguments: unlimited for every tree, 1 for one with grandchildren
\* below U1
DepthInputs(tree) ==
    IF TreeDepth(tree) >= 2 /\ tree.dataset_id = "U1" THEN {0, 1} ELSE {0}

RelationInputs ==
    {LineageRelation(c, s, d) : c \in Classifiers, s \in Ids, d \in Ids}

\* Collections a caller can hold to merge in or to diff against, each built
\* by the constructor from a tree
PoolTrees ==
    {OneChild(SOURCES, p[1], "nbar", Leaf(SOURCES, p[2], None), None) :
        p \in {q \in Ids \X Ids : q[1] # q[2]}}
    \cup {OneChild(SOURCES, "U1", "level1", Leaf(SOURCES, "U2", "h1"), None),
          OneChild(SOURCES, "U1", "nbar",
                   OneChild(SOURCES, "U2", "nbar", Leaf(SOURCES, "U3", None), None), "h2")}

\* ... or, the last one, by merging a relation from an id to itself into an
\* empty collection
PoolInputs ==
    {EmptyRelations} \cup {NewFromTree(t, 0) : t \in PoolTrees}
    \cup {merge_new_lineage_relation(EmptyRelations, LineageRelation("nbar", "U3", "U3"))}

\* Collections to diff against
ExistingInputs ==
    {EmptyRelations,
     NewFromTree(OneChild(SOURCES, "U1", "nbar", Leaf(SOURCES, "U2", None), None), 0),
     NewFromTree(OneChild(SOURCES, "U1", "level1", Leaf(SOURCES, "U2", "h1"), None), 0),
     NewFromTree(OneChild(SOURCES, "U2", "nbar", Leaf(SOURCES, "U1", None), None), 0),
     merge_new_lineage_relation(EmptyRelations, LineageRelation("level1", "U1", "U2")),
     merge_new_home(EmptyRelations, "U1", "h2"),
     merge_new_lineage_relation(EmptyRelations, LineageRelation("nbar", "U3", "U3"))}

(* ------------------------------- state -------------------------------- *)
VARIABLES
    homes,          \* self._homes
    relations_idx,  \* self._relations_idx
    trees_idx,      \* self._trees_idx
    relations,      \* self.relations
    by_source,      \* self.by_source
    by_derived,     \* self.by_derived
    dataset_ids,    \* self.dataset_ids
    op,             \* the last method called on the collection
    arg,            \* its arguments
    err,            \* the exception it raised, or NoError
    ret,            \* what it returned (extract_tree, relations_diff)
    nops,           \* number of calls so far
    nraised         \* number of calls that raised

fields == <<homes, relations_idx, trees_idx, relations, by_source, by_derived,
            dataset_ids>>
vars == <<homes, relations_idx, trees_idx, relations, by_source, by_derived,
          dataset_ids, op, arg, err, ret, nops, nraised>>

\* The collection as a record, as the operators take it
Self ==
    [homes |-> homes, relations_idx |-> relations_idx, trees_idx |-> trees_idx,
     relations |-> relations, by_source |-> by_source, by_derived |-> by_derived,
     dataset_ids |-> dataset_ids, err |-> NoError]

NoReturn == [none |-> TRUE]

\* The collection after a mutating call that left it as st
Becomes(st) ==
    /\ homes' = st.homes
    /\ relations_idx' = st.relations_idx
    /\ trees_idx' = st.trees_idx
    /\ relations' = st.relations
    /\ by_source' = st.by_source
    /\ by_derived' = st.by_derived
    /\ dataset_ids' = st.dataset_ids
    /\ err' = st.err
    /\ nraised' = nraised + (IF st.err = NoError THEN 0 ELSE 1)
    /\ nops' = nops + 1

Init ==
    /\ homes = <<>>
    /\ relations_idx = <<>>
    /\ trees_idx = <<>>
    /\ relations = <<>>
    /\ by_source = <<>>
    /\ by_derived = <<>>
    /\ dataset_ids = {}
    /\ op = "init"
    /\ arg = NoReturn
    /\ err = NoError
    /\ ret = NoReturn
    /\ nops = 0
    /\ nraised = 0

MergeNewHome(id_, home) ==
    /\ nops < MaxOps
    /\ op' = "merge_new_home"
    /\ arg' = [id_ |-> id_, home |-> home]
    /\ ret' = NoReturn
    /\ Becomes(merge_new_home(Self, id_, home))

MergeNewLineageRelation(rel) ==
    /\ nops < MaxOps
    /\ op' = "merge_new_lineage_relation"
    /\ arg' = [rel |-> rel]
    /\ ret' = NoReturn
    /\ Becomes(merge_new_lineage_relation(Self, rel))

MergeTree(tree, max_depth) ==
    /\ nops < MaxOps
    /\ op' = "merge_tree"
    /\ arg' = [tree |-> tree, max_depth |-> max_depth]
    /\ ret' = NoReturn
    /\ Becomes(merge_tree(Self, tree, FALSE, max_depth))

Merge(pool) ==
    /\ nops < MaxOps
    /\ op' = "merge"
    /\ arg' = [pool |-> pool]
    /\ ret' = NoReturn
    /\ Becomes(merge(Self, pool))

ExtractTree(root, direction) ==
    /\ nops < MaxOps
    /\ op' = "extract_tree"
    /\ arg' = [root |-> root, direction |-> direction]
    /\ LET r == extract_tree(Self, root, direction, {})
       IN /\ ret' = r
          /\ err' = IF r.raised THEN "CyclicGraph" ELSE NoError
          /\ nraised' = nraised + (IF r.raised THEN 1 ELSE 0)
    /\ nops' = nops + 1
    /\ UNCHANGED fields

\* tree.child_datasets() for a tree the caller holds
ChildDatasets(tree) ==
    /\ nops < MaxOps
    /\ op' = "child_datasets"
    /\ arg' = [tree |-> tree]
    /\ LET r == child_datasets(tree)
       IN /\ ret' = r
          /\ err' = IF r.raised THEN "CyclicTree" ELSE NoError
          /\ nraised' = nraised + (IF r.raised THEN 1 ELSE 0)
    /\ nops' = nops + 1
    /\ UNCHANGED fields

\* relations_diff with existing_relations merged into self, not into a clone
RelationsDiffMergesIntoSelf(has_existing, existing_relations, allow_updates) ==
    /\ nops < MaxOps
    /\ op' = "relations_diff"
    /\ arg' = [has_existing |-> has_existing, existing_relations |-> existing_relations,
               allow_updates |-> allow_updates]
    /\ LET r == IF has_existing
                THEN relations_diff(Self, existing_relations, allow_updates)
                ELSE DiffNoExisting(Self)
           after == IF has_existing /\ ~allow_updates
                    THEN merge(Self, existing_relations) ELSE Self
       IN /\ ret' = r
          /\ err' = r.err
          /\ nraised' = nraised + (IF r.err = NoError THEN 0 ELSE 1)
          /\ homes' = after.homes
          /\ relations_idx' = after.relations_idx
          /\ trees_idx' = after.trees_idx
          /\ relations' = after.relations
          /\ by_source' = after.by_source
          /\ by_derived' = after.by_derived
          /\ dataset_ids' = after.dataset_ids
    /\ nops' = nops + 1

RelationsDiff(has_existing, existing_relations, allow_updates) ==
    /\ nops < MaxOps
    /\ op' = "relations_diff"
    /\ arg' = [has_existing |-> has_existing, existing_relations |-> existing_relations,
               allow_updates |-> allow_updates]
    /\ LET r == IF has_existing
                THEN relations_diff(Self, existing_relations, allow_updates)
                ELSE DiffNoExisting(Self)
       IN /\ ret' = r
          /\ err' = r.err
          /\ nraised' = nraised + (IF r.err = NoError THEN 0 ELSE 1)
    /\ nops' = nops + 1
    /\ UNCHANGED fields

Next ==
    \/ \E id_ \in Ids, home \in HomeValues : MergeNewHome(id_, home)
    \/ \E rel \in RelationInputs : MergeNewLineageRelation(rel)
    \/ \E tree \in TreeInputs : \E max_depth \in DepthInputs(tree) :
           MergeTree(tree, max_depth)
    \/ \E pool \in PoolInputs : Merge(pool)
    \/ \E root \in Ids, direction \in Directions : ExtractTree(root, direction)
    \/ \E existing_relations \in ExistingInputs, allow_updates \in BOOLEAN :
           RelationsDiff(TRUE, existing_relations, allow_updates)
    \/ \E allow_updates \in BOOLEAN :
           RelationsDiff(FALSE, EmptyRelations, allow_updates)
    \/ \E tree \in TreeInputs : ChildDatasets(tree)

Spec == Init /\ [][Next]_vars


(* ------------------------- graph vocabulary --------------------------- *)
\* The recorded edges as (source_id, derived_id) pairs
EdgesOf(rels) == {<<rels[i].source_id, rels[i].derived_id>> : i \in DOMAIN rels}

\* Ids reachable from id by one or more source->derived hops of edges
RECURSIVE ReachedFrom(_, _)
ReachedFrom(edges, seen) ==
    LET more == seen \cup {e[2] : e \in {f \in edges : f[1] \in seen}}
    IN IF more = seen THEN seen ELSE ReachedFrom(edges, more)

Reach(edges, id) == ReachedFrom(edges, {e[2] : e \in {f \in edges : f[1] = id}})

OnCycle(edges, id) == id \in Reach(edges, id)
Acyclic(edges) == \A e \in edges : ~OnCycle(edges, e[1])

MutatingOps == {"merge_new_home", "merge_new_lineage_relation", "merge_tree", "merge"}

(* ------------------------------- C1 ----------------------------------- *)
\* C1: when every call so far has returned normally and the last one was a
\* mutating operation, the recorded edge set has no directed cycle, self-loops
\* included.
C1_AcyclicAfterSuccess ==
    (op \in MutatingOps /\ nraised = 0) => Acyclic(EdgesOf(relations))


(* ------------------------------- C2 ----------------------------------- *)
\* The edges a tree holds: for every node and each of its children, the pair
\* merge_tree records for them
RECURSIVE TreeEdges(_)
TreeEdges(tree) ==
    LET kids == ChildList(tree)
    IN {TreeIds(tree.direction, tree.dataset_id, kids[i][2].dataset_id) : i \in DOMAIN kids}
       \cup UNION {TreeEdges(kids[i][2]) : i \in DOMAIN kids}

\* Some edge of new between two ids lies on a directed cycle of old and new
\* taken together
ClosesCycle(old, new) ==
    \E e \in new : e[1] # e[2] /\ e[1] \in Reach(old \cup new, e[2])

C3_MergeTwiceSameAsOnce ==
    [][(/\ op \in {"merge_tree", "merge"}
        /\ err = NoError
        /\ op' = op
        /\ arg' = arg)
       => (err' = NoError /\ relations' = relations /\ homes' = homes)]_vars

(* ------------------------------- C5 ----------------------------------- *)
RelationsFor(rels, ids) ==
    {i \in DOMAIN rels : <<rels[i].source_id, rels[i].derived_id>> = ids}

\* No (source_id, derived_id) pair has two recorded classifiers, in relations
\* or in the index
OneClassifierPerPair ==
    /\ \A i, j \in DOMAIN relations :
          (relations[i].source_id = relations[j].source_id
           /\ relations[i].derived_id = relations[j].derived_id)
          => relations[i].classifier = relations[j].classifier
    /\ \A i, j \in DOMAIN relations_idx :
          relations_idx[i][1] = relations_idx[j][1]
          => relations_idx[i][2] = relations_idx[j][2]

\* C5: merging a relation for a pair already recorded with another classifier
\* raises and the recorded classifier stays; merging it with the recorded
\* classifier succeeds and relations holds exactly one relation for the pair;
\* no pair ever has two recorded classifiers.
C5_ClassifierDeterminism ==
    [][/\ op' = "merge_new_lineage_relation"
          => LET rel == arg'.rel
                 ids == <<rel.source_id, rel.derived_id>>
             IN Has(relations_idx, ids)
                => /\ Get(relations_idx', ids) = Get(relations_idx, ids)
                   /\ Cardinality(RelationsFor(relations', ids)) = 1
                   /\ relations'[CHOOSE i \in RelationsFor(relations', ids) : TRUE].classifier
                          = Get(relations_idx, ids)
                   /\ IF Get(relations_idx, ids) # rel.classifier
                      THEN err' = "InconsistentClassifier"
                      ELSE err' = NoError
       /\ OneClassifierPerPair']_vars

\* C5 witness: a second classifier for a recorded pair was rejected.
C5_Witness ==
    /\ op = "merge_new_lineage_relation"
    /\ err = "InconsistentClassifier"
    /\ Len(relations) = 1
    /\ relations[1].classifier # arg.rel.classifier
    /\ relations[1].source_id = arg.rel.source_id
    /\ relations[1].derived_id = arg.rel.derived_id

(* ------------------------------- C6 ----------------------------------- *)
\* C6: merge_new_home raises exactly when the id has a recorded non-null home
\* and the supplied home is another non-null home.
C6_HomeConflictOnlyNonNull ==
    [][op' = "merge_new_home"
       => ((err' # NoError)
           <=> (/\ Has(homes, arg'.id_)
                /\ Get(homes, arg'.id_) # None
                /\ arg'.home # None
                /\ arg'.home # Get(homes, arg'.id_)))]_vars

(* ----------------------------- C7, C8, C9 ----------------------------- *)
\* The tree of the scenario: U1 (SOURCES) with children {"nbar": [U2 leaf]}
ScenarioTree == OneChild(SOURCES, "U1", "nbar", Leaf(SOURCES, "U2", None), None)

\* C7: merging the scenario tree into an empty collection yields exactly one
\* relation, with classifier nbar, source_id U2 (the child) and derived_id U1
\* (the root).
C7_ChildIsSource ==
    (nops = 1 /\ op = "merge_tree" /\ arg.tree = ScenarioTree)
    => relations = <<LineageRelation("nbar", "U2", "U1")>>

RECURSIVE TreeHomes(_)
TreeHomes(tree) ==
    LET kids == ChildList(tree)
    IN {tree.home} \cup UNION {TreeHomes(kids[i][2]) : i \in DOMAIN kids}

\* C8: a successful merge_tree of a tree whose nodes all have home None records
\* no home: the homes map is as it was.
C8_NoHomeRecorded ==
    [][(op' = "merge_tree" /\ err' = NoError /\ TreeHomes(arg'.tree) = {None})
       => homes' = homes]_vars

\* The (classifier, id) pairs a node lists as its children
ListedChildren(tree) ==
    LET kids == ChildList(tree)
    IN {<<kids[i][1], kids[i][2].dataset_id>> : i \in DOMAIN kids}

\* The (classifier, id) pairs recorded as children of root in a direction
RecordedChildren(root, direction) ==
    {<<c, n>> \in Classifiers \X Ids :
        /\ Has(relations_idx, TreeIds(direction, root, n))
        /\ Get(relations_idx, TreeIds(direction, root, n)) = c}

\* C9: after the scenario tree is merged into an empty collection,
\* extract_tree(U1, SOURCES) returns the scenario tree; and every tree that
\* extract_tree returns has the root and direction asked for and lists under
\* each classifier exactly the ids recorded as the root's children in that
\* direction with that classifier, each once.
C9_ExtractListsMergedChildren ==
    /\ (nops = 1 /\ op = "merge_tree" /\ arg.tree = ScenarioTree)
       => extract_tree(Self, "U1", SOURCES, {}) = [raised |-> FALSE, tree |-> ScenarioTree]
    /\ (op = "extract_tree" /\ ~ret.raised)
       => /\ ret.tree.dataset_id = arg.root
          /\ ret.tree.direction = arg.direction
          /\ ~ret.tree.children.is_none
          /\ ListedChildren(ret.tree) = RecordedChildren(arg.root, arg.direction)
          /\ Len(ChildList(ret.tree)) = Cardinality(ListedChildren(ret.tree))

\* C9 witness: extract_tree(U1, SOURCES) returned the scenario tree from a
\* collection holding what one merge of the scenario tree records.
C9_Witness ==
    /\ nops = 2
    /\ op = "extract_tree"
    /\ arg = [root |-> "U1", direction |-> SOURCES]
    /\ ret = [raised |-> FALSE, tree |-> ScenarioTree]
    /\ Len(relations) = 1
    /\ Keys(homes) = {"U1", "U2"}

(* ------------------------------- C10 ---------------------------------- *)
\* C10: relations_diff(existing, allow_updates=False) against an existing
\* collection object without edges or homes returns normally, with every
\* relation of self to add and nothing to update.
C10_StrictDiffAgainstEmpty ==
    (/\ op = "relations_diff"
     /\ arg.has_existing
     /\ ~arg.allow_updates
     /\ arg.existing_relations = EmptyRelations
     /\ Len(relations) = 1
     /\ relations[1].source_id # relations[1].derived_id
     /\ homes = <<>>)
    => /\ err = NoError
       /\ ret.relations_to_add = relations
       /\ ret.relations_to_update = <<>>


(* ------------------------------- C11 ---------------------------------- *)
\* C11: relations_diff(existing, allow_updates=True) with self holding one
\* relation for a pair and existing holding one relation for the same pair
\* under another classifier (and neither holding a home) returns normally,
\* with self's relation the only one to update and none to add.
C11_PermissiveDiffUpdates ==
    (/\ op = "relations_diff"
     /\ arg.has_existing
     /\ arg.allow_updates
     /\ homes = <<>>
     /\ Len(relations) = 1
     /\ relations[1].source_id # relations[1].derived_id
     /\ arg.existing_relations.homes = <<>>
     /\ Keys(arg.existing_relations.relations_idx) = Keys(relations_idx)
     /\ arg.existing_relations.relations[1].classifier # relations[1].classifier)
    => /\ err = NoError
       /\ ret.relations_to_update = relations
       /\ ret.relations_to_add = <<>>

(* ------------------------------- C12 ---------------------------------- *)
\* The exception kinds that are InconsistentLineageException
InconsistentLineageKinds ==
    {"InconsistentHome", "InconsistentClassifier", "CyclicGraph", "CyclicTree",
     "DuplicateSubtree", "MixedDirection"}

\* Two collections record another classifier for one pair
ClassifiersDiverge(st, existing) ==
    \E ids \in Keys(st.relations_idx) \cap Keys(existing.relations_idx) :
        Get(st.relations_idx, ids) # Get(existing.relations_idx, ids)

\* Two collections record different non-null homes for one id
HomesDiverge(st, existing) ==
    \E id \in Keys(st.homes) \cap Keys(existing.homes) :
        /\ Get(st.homes, id) # None
        /\ Get(existing.homes, id) # None
        /\ Get(st.homes, id) # Get(existing.homes, id)

\* The edges of two collections taken together hold a directed cycle
UnionCyclic(st, existing) ==
    ~Acyclic(EdgesOf(st.relations) \cup EdgesOf(existing.relations))

\* C12: relations_diff(existing, allow_updates=False) raises
\* InconsistentLineageException whenever self and existing record another
\* classifier for one pair, or different non-null homes for one id, or their
\* edges taken together hold a cycle.
C12_StrictDiffRejectsDivergence ==
    (/\ op = "relations_diff"
     /\ arg.has_existing
     /\ ~arg.allow_updates
     /\ \/ ClassifiersDiverge(Self, arg.existing_relations)
        \/ HomesDiverge(Self, arg.existing_relations)
        \/ UnionCyclic(Self, arg.existing_relations))
    => err \in InconsistentLineageKinds

(* ------------------------------- C13 ---------------------------------- *)
\* C13: relations_diff without an existing collection returns normally, with
\* all of self's relations to add, all of self's homes to add and nothing to
\* update, whatever allow_updates is.
C13_DiffWithoutExisting ==
    (op = "relations_diff" /\ ~arg.has_existing)
    => /\ err = NoError
       /\ ret.relations_to_add = relations
       /\ ret.homes_to_add = homes
       /\ ret.relations_to_update = <<>>
       /\ ret.homes_to_update = <<>>

\* C13 witness: the diff without an existing collection of a collection that
\* holds a relation and a home, updates allowed.
C13_Witness ==
    /\ op = "relations_diff"
    /\ ~arg.has_existing
    /\ arg.allow_updates
    /\ Len(relations) = 1
    /\ \E i \in DOMAIN homes : homes[i][2] # None
    /\ ret.relations_to_add = relations
    /\ ret.homes_to_add = homes

(* ------------------------------- C14 ---------------------------------- *)
\* The edges of a tree whose child end is at depth n or less (the root is at
\* depth 0)
RECURSIVE TreeEdgesWithin(_, _)
TreeEdgesWithin(tree, n) ==
    IF n = 0 THEN {}
    ELSE LET kids == ChildList(tree)
         IN {TreeIds(tree.direction, tree.dataset_id, kids[i][2].dataset_id) :
                i \in DOMAIN kids}
            \cup UNION {TreeEdgesWithin(kids[i][2], n - 1) : i \in DOMAIN kids}

\* The edges merge_tree may add for a depth bound: all of them for 0
EdgesWithinBound(tree, max_depth) ==
    IF max_depth = 0 THEN TreeEdges(tree) ELSE TreeEdgesWithin(tree, max_depth)

\* C14: merge_tree with max_depth = n >= 1 adds no edge whose child end is
\* deeper than n (with max_depth = 1, only edges between the root and its
\* children), and a successful merge_tree records every edge within the bound
\* (with max_depth = 0, the edges of the whole tree).
C14_DepthBound ==
    [][op' = "merge_tree"
       => /\ EdgesOf(relations') \subseteq
                 EdgesOf(relations) \cup EdgesWithinBound(arg'.tree, arg'.max_depth)
          /\ err' = NoError
                 => EdgesWithinBound(arg'.tree, arg'.max_depth) \subseteq EdgesOf(relations')]_vars

(* ------------------------ C4: the round trip -------------------------- *)
\* A second specification: a collection over five ids is built relation by
\* relation, each relation from an id to a later one (so the collection is
\* acyclic) and the relations in the order of their (source, derived) ranks;
\* a caller then extracts a tree from it and builds a new collection from
\* that tree.
RoundTripIds == <<"U1", "U2", "U3", "U4", "U5">>

\* Number of relations merged into the collection of the round trip.
MaxRoundTripRelations == 5

Rank(id) == CHOOSE i \in DOMAIN RoundTripIds : RoundTripIds[i] = id

\* Relations from an id to a later id of RoundTripIds
RoundTripRelations ==
    {LineageRelation("nbar", RoundTripIds[p[1]], RoundTripIds[p[2]]) :
        p \in {q \in (DOMAIN RoundTripIds) \X (DOMAIN RoundTripIds) : q[1] < q[2]}}

\* rel comes after the last relation merged so far
ComesNext(rel) ==
    IF relations = <<>> THEN TRUE
    ELSE LET last == relations[Len(relations)]
         IN IF last.source_id = rel.source_id
            THEN Rank(last.derived_id) < Rank(rel.derived_id)
            ELSE Rank(last.source_id) < Rank(rel.source_id)

RoundTripMergeRelation(rel) ==
    /\ op # "round_trip"
    /\ Len(relations) < MaxRoundTripRelations
    /\ ComesNext(rel)
    /\ op' = "merge_new_lineage_relation"
    /\ arg' = [rel |-> rel]
    /\ ret' = NoReturn
    /\ Becomes(merge_new_lineage_relation(Self, rel))

\* LineageRelations(tree=self.extract_tree(root, direction))
RoundTrip(root, direction) ==
    /\ op # "round_trip"
    /\ op' = "round_trip"
    /\ arg' = [root |-> root, direction |-> direction]
    /\ LET extracted == extract_tree(Self, root, direction, {})
           merged == IF extracted.raised THEN Raise(EmptyRelations, "CyclicGraph")
                     ELSE NewFromTree(extracted.tree, 0)
       IN /\ ret' = [extracted |-> extracted, merged |-> merged]
          /\ err' = merged.err
          /\ nraised' = nraised + (IF merged.err = NoError THEN 0 ELSE 1)
    /\ nops' = nops + 1
    /\ UNCHANGED fields

NextRoundTrip ==
    \/ \E rel \in RoundTripRelations : RoundTripMergeRelation(rel)
    \/ \E root \in dataset_ids, direction \in Directions : RoundTrip(root, direction)

SpecRoundTrip == Init /\ [][NextRoundTrip]_vars

\* The edges as extract_tree walks them in a direction: from a node to the
\* nodes listed as its children
Oriented(edges, direction) ==
    IF direction = SOURCES THEN edges ELSE {<<e[2], e[1]>> : e \in edges}

\* The recorded relations on a path from root in a direction
ReachableRelations(rels, root, direction) ==
    LET walk == Oriented(EdgesOf(rels), direction)
        nodes == {root} \cup Reach(walk, root)
    IN {rels[i] : i \in {j \in DOMAIN rels :
           IF direction = SOURCES THEN rels[j].source_id \in nodes
           ELSE rels[j].derived_id \in nodes}}

ReachableIds(rels, root, direction) ==
    {root} \cup Reach(Oriented(EdgesOf(rels), direction), root)

\* C4: for an acyclic collection, a known root and either direction, building
\* a collection from extract_tree(root, direction) succeeds, and its relations
\* and homes are those of the original reachable from root in that direction
\* (an id without a home entry and an id with home None are taken as alike).
C4_RoundTrip ==
    (op = "round_trip" /\ arg.root \in dataset_ids /\ Acyclic(EdgesOf(relations)))
    => /\ ret.merged.err = NoError
       /\ {ret.merged.relations[i] : i \in DOMAIN ret.merged.relations}
             = ReachableRelations(relations, arg.root, arg.direction)
       /\ \A id \in ReachableIds(relations, arg.root, arg.direction) :
             GetOr(ret.merged.homes, id, None) = GetOr(homes, id, None)


(* ------------------------------- C16 ---------------------------------- *)
\* The pairs for which a tree gives a child with children of its own, in the
\* order merge_tree (unlimited depth) comes to them
RECURSIVE DetailedEdges(_), DetailedEdgesOfKids(_, _)
DetailedEdges(tree) == DetailedEdgesOfKids(tree, ChildList(tree))

DetailedEdgesOfKids(tree, kids) ==
    IF kids = <<>> THEN <<>>
    ELSE LET child == kids[1][2]
             ids == TreeIds(tree.direction, tree.dataset_id, child.dataset_id)
         IN (IF HasChildren(child) THEN <<ids>> ELSE <<>>)
            \o DetailedEdges(child)
            \o DetailedEdgesOfKids(tree, Tail(kids))

\* A sequence of pairs holds a registered pair, or one pair twice
GivenAgain(registered, detailed) ==
    \/ \E i \in DOMAIN detailed : detailed[i] \in registered
    \/ \E i, j \in DOMAIN detailed : i < j /\ detailed[i] = detailed[j]

\* C16: merge_tree (unlimited depth) of a tree that gives children with
\* children of their own for a pair already registered with such a subtree,
\* or for one pair twice, raises InconsistentLineageException; so does merge
\* of a collection whose registered subtrees include one for a pair
\* registered here.
C16_SecondDetailedSubtreeRejected ==
    [][(\/ /\ op' = "merge_tree"
           /\ arg'.max_depth = 0
           /\ GivenAgain(Keys(trees_idx), DetailedEdges(arg'.tree))
        \/ /\ op' = "merge"
           /\ Keys(arg'.pool.trees_idx) \cap Keys(trees_idx) # {})
       => err' \in InconsistentLineageKinds]_vars

\* C16 witness: U1 -> U2 -> U3 was merged with U3 under nbar, and a second
\* tree giving U2 under U1 the child U3 under level1 was rejected as a
\* duplicate subtree.
C16_Witness ==
    /\ nops = 2
    /\ op = "merge_tree"
    /\ arg.tree = OneChild(SOURCES, "U1", "nbar",
                      OneChild(SOURCES, "U2", "level1", Leaf(SOURCES, "U3", None), None),
                      None)
    /\ err = "DuplicateSubtree"
    /\ nraised = 1
    /\ Has(trees_idx, <<"U1", "U2">>)
    /\ Get(trees_idx, <<"U1", "U2">>)
          = OneChild(SOURCES, "U2", "nbar", Leaf(SOURCES, "U3", None), None)

(* ------------------------------- C17 ---------------------------------- *)
\* The pairs of a tree between a node and a child of another direction
RECURSIVE MixedEdges(_)
MixedEdges(tree) ==
    LET kids == ChildList(tree)
    IN {TreeIds(tree.direction, tree.dataset_id, kids[i][2].dataset_id) :
           i \in {j \in DOMAIN kids : kids[j][2].direction # tree.direction}}
       \cup UNION {MixedEdges(kids[i][2]) : i \in DOMAIN kids}

\* ... and between a node and a child of its own direction
RECURSIVE UnmixedEdges(_)
UnmixedEdges(tree) ==
    LET kids == ChildList(tree)
    IN {TreeIds(tree.direction, tree.dataset_id, kids[i][2].dataset_id) :
           i \in {j \in DOMAIN kids : kids[j][2].direction = tree.direction}}
       \cup UNION {UnmixedEdges(kids[i][2]) : i \in DOMAIN kids}

\* Every node has one child at most
RECURSIVE IsChain(_)
IsChain(tree) ==
    LET kids == ChildList(tree)
    IN Len(kids) <= 1 /\ \A i \in DOMAIN kids : IsChain(kids[i][2])

\* C17: merge_tree of a tree in which a node that the depth bound lets it
\* come to has a child of another direction raises
\* InconsistentLineageException, and the call records no edge for that child;
\* when the tree is a chain without a repeated id merged into an empty
\* collection, the exception is the mixed-direction one.
C17_MixedDirectionRejected ==
    [][(/\ op' = "merge_tree"
        /\ MixedEdges(arg'.tree) # {}
        /\ (arg'.max_depth = 0 \/ TreeDepth(arg'.tree) <= arg'.max_depth + 1))
       => /\ err' \in InconsistentLineageKinds
          /\ (MixedEdges(arg'.tree) \ UnmixedEdges(arg'.tree)) \cap EdgesOf(relations')
                \subseteq EdgesOf(relations)
          /\ (nops = 0 /\ IsChain(arg'.tree) /\ ~child_datasets(arg'.tree).raised)
                => err' = "MixedDirection"]_vars

\* C17 witness: the tree U1 -> U2 -> U3 with U3 of the other direction was
\* merged into an empty collection: the edge (U1,U2) is recorded, the merge
\* raised at U3 and no edge to U3 is recorded.
C17_Witness ==
    /\ nops = 1
    /\ op = "merge_tree"
    /\ arg.tree = OneChild(SOURCES, "U1", "nbar",
                      OneChild(SOURCES, "U2", "nbar", Leaf(DERIVED, "U3", None), None), None)
    /\ err = "MixedDirection"
    /\ relations = <<LineageRelation("nbar", "U1", "U2")>>
    /\ "U3" \notin dataset_ids

(* ------------------------------- C18 ---------------------------------- *)
\* The ids of the proper descendants of the root of a tree
RECURSIVE DescendantIds(_)
DescendantIds(tree) ==
    LET kids == ChildList(tree)
    IN UNION {{kids[i][2].dataset_id} \cup DescendantIds(kids[i][2]) : i \in DOMAIN kids}

\* Some node of the tree has a proper descendant with its own id
RECURSIVE RepeatsBelow(_)
RepeatsBelow(tree) ==
    LET kids == ChildList(tree)
    IN \/ tree.dataset_id \in DescendantIds(tree)
       \/ \E i \in DOMAIN kids : RepeatsBelow(kids[i][2])

\* C18: child_datasets raises exactly when some node of the tree has a proper
\* descendant with the id of that node; otherwise it returns the set of the
\* ids of all proper descendants of the root, the root's id not among them,
\* and the empty set for children None or {}.
C18_ChildDatasets ==
    op = "child_datasets"
    => /\ ret.raised <=> RepeatsBelow(arg.tree)
       /\ (err # NoError) <=> ret.raised
       /\ ~ret.raised
            => /\ ret.ids = DescendantIds(arg.tree)
               /\ arg.tree.dataset_id \notin ret.ids
       /\ ~HasChildren(arg.tree) => (~ret.raised /\ ret.ids = {})

\* C18 witness: child_datasets raised for U1 -> U2 -> U1, the id of the root
\* two levels below it.
C18_Witness ==
    /\ op = "child_datasets"
    /\ arg.tree = OneChild(SOURCES, "U1", "nbar",
                      OneChild(SOURCES, "U2", "level1", Leaf(SOURCES, "U1", None), None),
                      None)
    /\ ret.raised
    /\ err = "CyclicTree"

(* ------------------------------- C20 ---------------------------------- *)
\* The nodes of a tree, the root included
RECURSIVE NodesOf(_)
NodesOf(tree) ==
    LET kids == ChildList(tree)
    IN {tree} \cup UNION {NodesOf(kids[i][2]) : i \in DOMAIN kids}

\* An id has a recorded neighbour in a direction
HasNeighbour(rels, id, direction) ==
    \E e \in Oriented(EdgesOf(rels), direction) : e[1] = id

\* C20: in a tree returned by extract_tree every node has a children map
\* (never None), the direction asked for and the home recorded for its id
\* (None when none is recorded); a node without a recorded neighbour in that
\* direction has children = {}, and so has a root unknown to the collection.
C20_ExtractedNodesArePopulated ==
    (op = "extract_tree" /\ ~ret.raised)
    => /\ \A n \in NodesOf(ret.tree) :
             /\ ~n.children.is_none
             /\ n.direction = arg.direction
             /\ n.home = GetOr(homes, n.dataset_id, None)
             /\ ~HasNeighbour(relations, n.dataset_id, arg.direction)
                   => n.children = ChildrenEmpty
       /\ (arg.root \notin dataset_ids /\ ~Has(homes, arg.root) /\ relations = <<>>)
             => ret.tree = Leaf(arg.direction, arg.root, None)

\* C20 witness: extract_tree returned a tree with a child, the root and the
\* child both with a recorded home.
C20_Witness ==
    /\ op = "extract_tree"
    /\ ~ret.raised
    /\ ret.tree.home # None
    /\ \E n \in NodesOf(ret.tree) :
          n # ret.tree /\ n.home # None /\ n.children = ChildrenEmpty

(* ------------------------------- C21 ---------------------------------- *)
\* The pairs of a tree in the order merge_tree (unlimited depth) merges them
RECURSIVE TreeEdgeList(_), TreeEdgeListOfKids(_, _)
TreeEdgeList(tree) == TreeEdgeListOfKids(tree, ChildList(tree))

TreeEdgeListOfKids(tree, kids) ==
    IF kids = <<>> THEN <<>>
    ELSE LET child == kids[1][2]
         IN <<TreeIds(tree.direction, tree.dataset_id, child.dataset_id)>>
            \o TreeEdgeList(child)
            \o TreeEdgeListOfKids(tree, Tail(kids))

\* The pairs a call hands to merge_new_lineage_relation, in order, when
\* nothing raises
PairsGiven(o, a) ==
    IF o = "merge_new_lineage_relation"
    THEN << <<a.rel.source_id, a.rel.derived_id>> >>
    ELSE IF o = "merge"
    THEN [i \in DOMAIN a.pool.relations_idx |-> a.pool.relations_idx[i][1]]
    ELSE IF o = "merge_tree" THEN TreeEdgeList(a.tree)
    ELSE <<>>

\* A sequence without the elements of known and without repeats, the first
\* of equal elements kept
RECURSIVE FirstSeen(_, _)
FirstSeen(seq, known) ==
    IF seq = <<>> THEN <<>>
    ELSE IF seq[1] \in known THEN FirstSeen(Tail(seq), known)
    ELSE <<seq[1]>> \o FirstSeen(Tail(seq), known \cup {seq[1]})

PairsOf(rels) == [i \in DOMAIN rels |-> <<rels[i].source_id, rels[i].derived_id>>]

IsPrefix(s, t) == Len(s) <= Len(t) /\ SubSeq(t, 1, Len(s)) = s

\* C21: relations never holds two entries for one (source_id, derived_id)
\* pair; every call leaves the entries it found in place and in order, and
\* appends the pairs it merges for the first time in the order it merges them
\* (all of them when it succeeds, those before the failure when it raises).
C21_RelationsFirstSeenOrder ==
    [][/\ \A i, j \in DOMAIN relations' :
             PairsOf(relations')[i] = PairsOf(relations')[j] => i = j
       /\ IsPrefix(relations, relations')
       /\ (op' = "merge_tree" => arg'.max_depth = 0)
             => LET new == SubSeq(PairsOf(relations'), Len(relations) + 1, Len(relations'))
                    want == FirstSeen(PairsGiven(op', arg'), Keys(relations_idx))
                IN /\ IsPrefix(new, want)
                   /\ err' = NoError => new = want]_vars

\* C21 witness: a pair recorded first of two was merged again with its
\* classifier; the call succeeded and relations is as it was.
C21_Witness ==
    /\ op = "merge_new_lineage_relation"
    /\ err = NoError
    /\ nops = 2
    /\ Len(relations) = 2
    /\ arg.rel = relations[1]

(* ------------------------------- C22 ---------------------------------- *)
\* C22: no step, whether its call succeeds or raises, removes a relation,
\* changes the classifier recorded for a pair, or changes or removes the home
\* entry of an id that has one.
C22_OnlyAccumulates ==
    [][/\ \A i \in DOMAIN relations : i \in DOMAIN relations' /\ relations'[i] = relations[i]
       /\ \A ids \in Keys(relations_idx) :
             Has(relations_idx', ids) /\ Get(relations_idx', ids) = Get(relations_idx, ids)
       /\ \A id \in Keys(homes) :
             Has(homes', id) /\ Get(homes', id) = Get(homes, id)]_vars

\* C22 witness: an id with the entry None was given a home by merge_new_home;
\* the call succeeded and the entry is still None.
C22_Witness ==
    /\ op = "merge_new_home"
    /\ err = NoError
    /\ arg.home # None
    /\ Has(homes, arg.id_)
    /\ Get(homes, arg.id_) = None

(* ------------------------------- C23 ---------------------------------- *)
\* C23: merge_tree(T) (unlimited depth) succeeds exactly when
\* LineageRelations(T) can be built and merge(LineageRelations(T)) into the
\* collection as it was succeeds, and then both leave the same relations,
\* homes and registered subtrees.
C23_TreeMergeSameAsCollectionMerge ==
    [][(op' = "merge_tree" /\ arg'.max_depth = 0)
       => LET pool == NewFromTree(arg'.tree, 0)
              merged == merge(Self, pool)
          IN /\ (err' = NoError) <=> (pool.err = NoError /\ merged.err = NoError)
             /\ err' = NoError
                   => /\ relations' = merged.relations
                      /\ homes' = merged.homes
                      /\ trees_idx' = merged.trees_idx]_vars

(* ------------------------------- C25 ---------------------------------- *)
\* C25: after a successful merge_tree (unlimited depth) of a tree, the id of
\* its root and the ids of all nodes below it are in dataset_ids, also when
\* the root has no children.
C25_TreeIdsAreKnown ==
    [][(op' = "merge_tree" /\ err' = NoError /\ arg'.max_depth = 0)
       => ({arg'.tree.dataset_id} \cup DescendantIds(arg'.tree)) \subseteq dataset_ids']_vars

(* ------------------------------- C26 ---------------------------------- *)
\* The (source, derived, classifier) triples of each of the four structures
TriplesOfRelations ==
    {<<relations[i].source_id, relations[i].derived_id, relations[i].classifier>> :
        i \in DOMAIN relations}

TriplesOfIndex ==
    {<<relations_idx[i][1][1], relations_idx[i][1][2], relations_idx[i][2]>> :
        i \in DOMAIN relations_idx}

TriplesOfBySource ==
    UNION {{<<by_source[i][1], by_source[i][2][j][1], by_source[i][2][j][2]>> :
               j \in DOMAIN by_source[i][2]} : i \in DOMAIN by_source}

TriplesOfByDerived ==
    UNION {{<<by_derived[i][2][j][1], by_derived[i][1], by_derived[i][2][j][2]>> :
               j \in DOMAIN by_derived[i][2]} : i \in DOMAIN by_derived}

\* C26: in every reachable state, also after a call that raised, relations,
\* relations_idx, by_source and by_derived hold the same (source, derived,
\* classifier) triples.
C26_EdgeStructuresInLockstep ==
    /\ TriplesOfRelations = TriplesOfIndex
    /\ TriplesOfIndex = TriplesOfBySource
    /\ TriplesOfBySource = TriplesOfByDerived

\* C26 witness: a relation was rejected as closing a cycle and is in all four
\* structures.
C26_Witness ==
    /\ op = "merge_new_lineage_relation"
    /\ err = "CyclicGraph"
    /\ arg.rel.source_id # arg.rel.derived_id
    /\ <<arg.rel.source_id, arg.rel.derived_id, arg.rel.classifier>> \in TriplesOfRelations
    /\ <<arg.rel.source_id, arg.rel.derived_id, arg.rel.classifier>> \in TriplesOfByDerived

(* ------------------------------- C27 ---------------------------------- *)
\* C27: merge_tree of a tree in which some node has a descendant with its own
\* id raises the cyclic-tree error and leaves homes, relations, the three
\* indices, dataset_ids and trees_idx as they were, whatever max_depth is and
\* however deep the repeated id lies.
C27_CyclicTreeRejectedUntouched ==
    [][(op' = "merge_tree" /\ RepeatsBelow(arg'.tree))
       => (err' = "CyclicTree" /\ [Self' EXCEPT !.err = NoError] = Self)]_vars

\* C27 witness: a collection that already holds something was given
\* U1 -> U2 -> U3 -> U3 with max_depth 1, the repeated id below the depth
\* bound, and the call raised.
C27_Witness ==
    /\ op = "merge_tree"
    /\ nops = 2
    /\ err = "CyclicTree"
    /\ arg.max_depth = 1
    /\ TreeDepth(arg.tree) = 3
    /\ RepeatsBelow(arg.tree)
    /\ relations # <<>>

(* ------------------------------- C28 ---------------------------------- *)
\* The pairs between the root of a tree and those of its children that are
\* not placeholders (children {} or a non-empty dict)
NonPlaceholderEdges(tree) ==
    LET kids == ChildList(tree)
    IN {TreeIds(tree.direction, tree.dataset_id, kids[i][2].dataset_id) :
           i \in {j \in DOMAIN kids : ~kids[j][2].children.is_none}}

\* C28: merge_tree of a tree whose root has a child that is not a placeholder,
\* for a pair that already has a registered subtree, raises
\* InconsistentLineageException, also when the child has children {}.
C28_OnlyPlaceholdersAfterDetail ==
    [][(op' = "merge_tree" /\ NonPlaceholderEdges(arg'.tree) \cap Keys(trees_idx) # {})
       => err' \in InconsistentLineageKinds]_vars

(* ------------------------------- C29 ---------------------------------- *)
\* The children with children of their own that a tree gives, each with its
\* pair, in the order merge_tree (unlimited depth) comes to them
RECURSIVE DetailedSubtrees(_), DetailedSubtreesOfKids(_, _)
DetailedSubtrees(tree) == DetailedSubtreesOfKids(tree, ChildList(tree))

DetailedSubtreesOfKids(tree, kids) ==
    IF kids = <<>> THEN <<>>
    ELSE LET child == kids[1][2]
             ids == TreeIds(tree.direction, tree.dataset_id, child.dataset_id)
         IN (IF HasChildren(child) THEN << <<ids, child>> >> ELSE <<>>)
            \o DetailedSubtrees(child)
            \o DetailedSubtreesOfKids(tree, Tail(kids))

\* The first of them for a pair
FirstDetailed(tree, ids) ==
    LET given == DetailedSubtrees(tree)
        first == CHOOSE i \in DOMAIN given :
                     given[i][1] = ids /\ \A j \in 1..(i - 1) : given[j][1] # ids
    IN given[first][2]

\* C29: no step replaces or removes an entry of trees_idx; every entry has a
\* subtree with non-empty children and no pair has two entries; an entry that
\* a step adds holds a subtree with non-empty children that the merged tree
\* gives for the pair (the first one, with unlimited depth) or the subtree
\* the merged collection had registered for it.
C29_GuardIsWriteOnce ==
    [][/\ IsPrefix(trees_idx, trees_idx')
       /\ \A i \in DOMAIN trees_idx' :
             /\ HasChildren(trees_idx'[i][2])
             /\ \A j \in DOMAIN trees_idx' : i # j => trees_idx'[i][1] # trees_idx'[j][1]
       /\ \A i \in (DOMAIN trees_idx') \ (DOMAIN trees_idx) :
             LET ids == trees_idx'[i][1]
                 node == trees_idx'[i][2]
             IN \/ /\ op' = "merge_tree"
                   /\ \E k \in DOMAIN DetailedSubtrees(arg'.tree) :
                         DetailedSubtrees(arg'.tree)[k] = <<ids, node>>
                   /\ arg'.max_depth = 0 => node = FirstDetailed(arg'.tree, ids)
                \/ /\ op' = "merge"
                   /\ Has(arg'.pool.trees_idx, ids)
                   /\ node = Get(arg'.pool.trees_idx, ids)]_vars

\* C29 witness: one tree gave U2 below U1 twice with children, the second
\* time with another subtree; the call raised and the guard holds the first.
C29_Witness ==
    /\ op = "merge_tree"
    /\ nops = 1
    /\ arg.tree \in DuplicateDetailTrees
    /\ err = "DuplicateSubtree"
    /\ Len(trees_idx) = 1
    /\ trees_idx[1] = <<<<"U1", "U2">>, FirstDetailed(arg.tree, <<"U1", "U2">>)>>
    /\ DetailedSubtrees(arg.tree)[2][1] = <<"U1", "U2">>
    /\ DetailedSubtrees(arg.tree)[2][2] # trees_idx[1][2]

(* ------------------------------- C30 ---------------------------------- *)
\* C30: relations_diff(existing, allow_updates=True), with self and existing
\* each free of cycles and their edges taken together holding one, returns
\* without raising.
C30_PermissiveDiffIgnoresCycles ==
    (/\ op = "relations_diff"
     /\ arg.has_existing
     /\ arg.allow_updates
     /\ Acyclic(EdgesOf(relations))
     /\ Acyclic(EdgesOf(arg.existing_relations.relations))
     /\ UnionCyclic(Self, arg.existing_relations))
    => err = NoError

(* ------------------------------- C31 ---------------------------------- *)
\* merge_new_home accepts home for id_: no entry, a None entry, or the same
HomeAccepted(id_, home) ==
    ~Has(homes, id_) \/ Get(homes, id_) = None \/ Get(homes, id_) = home

C32_SelfLoopRejected ==
    [][(op' = "merge_new_lineage_relation" /\ arg'.rel.source_id = arg'.rel.derived_id)
       => err' \in InconsistentLineageKinds]_vars

(* ------------------------------- C33 ---------------------------------- *)
\* C33: when a mutating call into a collection whose edges hold no cycle
\* raises the cyclic-graph error, the edges of the collection hold no cycle
\* afterwards; when the call was merge_new_lineage_relation, its relation is
\* in none of relations, relations_idx, by_source and by_derived.
C33_RejectedEdgeNotRetained ==
    [][(/\ op' \in MutatingOps
        /\ err' = "CyclicGraph"
        /\ Acyclic(EdgesOf(relations)))
       => /\ Acyclic(EdgesOf(relations'))
          /\ op' = "merge_new_lineage_relation"
               => LET triple == <<arg'.rel.source_id, arg'.rel.derived_id,
                                  arg'.rel.classifier>>
                  IN /\ triple \notin TriplesOfRelations'
                     /\ triple \notin TriplesOfIndex'
                     /\ triple \notin TriplesOfBySource'
                     /\ triple \notin TriplesOfByDerived']_vars

(* ------------------------------- C34 ---------------------------------- *)
\* C34: after merge_new_home(id_, home) with a home other than None returns
\* normally, the home recorded for id_ is home, also when the entry for id_
\* was None before.
C34_HomeRecordedAfterSuccess ==
    [][(op' = "merge_new_home" /\ err' = NoError /\ arg'.home # None)
       => (Has(homes', arg'.id_) /\ Get(homes', arg'.id_) = arg'.home)]_vars

(* ------------------------------- C35 ---------------------------------- *)
\* The relations of a collection as a set, and the home it has for an id
\* (None without an entry)
RelationSet(st) == {st.relations[i] : i \in DOMAIN st.relations}
HomeOf(st, id_) == GetOr(st.homes, id_, None)

\* C35: for a collection P that no call has raised on and a collection Q,
\* each with edges that hold no cycle, P.merge(Q) returns normally exactly
\* when Q.merge(P) does, and then the two results have the same set of
\* relations and the same home for every id.
C35_MergeOrderIndependent ==
    [][(/\ op' = "merge"
        /\ nraised = 0
        /\ Acyclic(EdgesOf(relations))
        /\ Acyclic(EdgesOf(arg'.pool.relations)))
       => LET swapped == merge(arg'.pool, Self)
          IN /\ (err' = NoError) <=> (swapped.err = NoError)
             /\ err' = NoError
                  => /\ RelationSet(Self') = RelationSet(swapped)
                     /\ \A id_ \in Ids : HomeOf(Self', id_) = HomeOf(swapped, id_)]_vars

(* ------------------------------- C36 ---------------------------------- *)
\* C36: relations_diff and extract_tree, whether they return or raise, leave
\* homes, relations, relations_idx, by_source, by_derived, dataset_ids and
\* trees_idx of self as they were.
C36_DiffAndExtractReadOnly ==
    [][op' \in {"relations_diff", "extract_tree"} => UNCHANGED fields]_vars

\* C36 witness: a strict relations_diff raised because existing holds the
\* edge back along the one edge of self, and self holds its one edge only.
C36_Witness ==
    /\ op = "relations_diff"
    /\ arg.has_existing
    /\ ~arg.allow_updates
    /\ err = "CyclicGraph"
    /\ nraised = 1
    /\ Len(relations) = 1
    /\ <<relations[1].derived_id, relations[1].source_id>>
          \in EdgesOf(arg.existing_relations.relations)
    /\ relations[1].source_id # relations[1].derived_id

(* ------------------------------- C38 ---------------------------------- *)
\* C38: when merge_new_lineage_relation raises because the pair is recorded
\* with another classifier, relations, relations_idx, by_source, by_derived,
\* dataset_ids, homes and trees_idx are as they were before the call.
C38_ClassifierConflictWritesNothing ==
    [][(op' = "merge_new_lineage_relation" /\ err' = "InconsistentClassifier")
       => UNCHANGED fields]_vars

\* C38 witness: a relation was rejected for its classifier, and the pair is
\* recorded once, with the other one.
C38_Witness ==
    /\ op = "merge_new_lineage_relation"
    /\ err = "InconsistentClassifier"
    /\ Has(relations_idx, <<arg.rel.source_id, arg.rel.derived_id>>)
    /\ Get(relations_idx, <<arg.rel.source_id, arg.rel.derived_id>>) # arg.rel.classifier
    /\ Len(relations) = 1
    /\ relations[1].classifier # arg.rel.classifier
    /\ dataset_ids = {arg.rel.source_id, arg.rel.derived_id}

(* ------------------------------- C39 ---------------------------------- *)
\* The ids that are an end of a recorded relation
EndIds(rels) ==
    {rels[i].source_id : i \in DOMAIN rels} \cup {rels[i].derived_id : i \in DOMAIN rels}

\* C39: while no call has raised, dataset_ids is the set of the ids that are
\* an end of a recorded relation; and merge_new_lineage_relation of a pair not
\* yet recorded then raises the cyclic-graph error exactly when an end of the
\* new relation is an end of a recorded one and the recorded edges with the
\* new one hold a cycle (with no such end the check is skipped and the
\* relation is accepted).
C39_KnownIdsAreEdgeEnds ==
    /\ [](nraised = 0 => dataset_ids = EndIds(relations))
    /\ [][(/\ op' = "merge_new_lineage_relation"
            /\ nraised = 0
            /\ ~Has(relations_idx, <<arg'.rel.source_id, arg'.rel.derived_id>>))
           => ((err' = "CyclicGraph")
                  <=> (/\ {arg'.rel.source_id, arg'.rel.derived_id} \cap EndIds(relations) # {}
                       /\ ~Acyclic(EdgesOf(relations)
                                   \cup {<<arg'.rel.source_id, arg'.rel.derived_id>>})))]_vars

\* C39 witness: a self-loop on an id that is an end of no recorded relation
\* was accepted next to a recorded relation, and dataset_ids holds the three
\* ids.
C39_Witness ==
    /\ op = "merge_new_lineage_relation"
    /\ nraised = 0
    /\ nops = 2
    /\ Len(relations) = 2
    /\ relations[2].source_id = relations[2].derived_id
    /\ relations[1].source_id # relations[1].derived_id
    /\ dataset_ids = Ids

(* ---------------------- the diamond: four ids ------------------------- *)
\* A third specification: a collection over four ids takes diamond trees and
\* single relations between any two of the ids, and trees are extracted
\* from it.
DiamondIds == {"U1", "U2", "U3", "U4"}

\* Number of operations performed on the collection of the diamond.
MaxDiamondOps == 3

\* U1 -> {nbar: [U2 -> {level1: [bottom]}, U3 -> {level1: [bottom]}]}
Diamond(direction, bottom) ==
    LineageTree(direction, "U1",
        ChildrenDict(<< <<"nbar", <<OneChild(direction, "U2", "level1", bottom, None),
                                   OneChild(direction, "U3", "level1", bottom, None)>>>> >>),
        None)

\* The diamond through U4, U4 a leaf or a placeholder in both positions
DiamondTrees ==
    {Diamond(d, Leaf(d, "U4", None)) : d \in Directions}
    \cup {Diamond(d, Placeholder(d, "U4")) : d \in Directions}

DiamondRelations ==
    {LineageRelation("nbar", s, d) : s \in DiamondIds, d \in DiamondIds}

DiamondMergeTree(tree) ==
    /\ nops < MaxDiamondOps
    /\ op' = "merge_tree"
    /\ arg' = [tree |-> tree, max_depth |-> 0]
    /\ ret' = NoReturn
    /\ Becomes(merge_tree(Self, tree, FALSE, 0))

DiamondMergeRelation(rel) ==
    /\ nops < MaxDiamondOps
    /\ op' = "merge_new_lineage_relation"
    /\ arg' = [rel |-> rel]
    /\ ret' = NoReturn
    /\ Becomes(merge_new_lineage_relation(Self, rel))

DiamondExtractTree(root, direction) ==
    /\ nops < MaxDiamondOps
    /\ op' = "extract_tree"
    /\ arg' = [root |-> root, direction |-> direction]
    /\ LET r == extract_tree(Self, root, direction, {})
       IN /\ ret' = r
          /\ err' = IF r.raised THEN "CyclicGraph" ELSE NoError
          /\ nraised' = nraised + (IF r.raised THEN 1 ELSE 0)
    /\ nops' = nops + 1
    /\ UNCHANGED fields

NextDiamond ==
    \/ \E tree \in DiamondTrees : DiamondMergeTree(tree)
    \/ \E rel \in DiamondRelations : DiamondMergeRelation(rel)
    \/ \E root \in DiamondIds, direction \in Directions : DiamondExtractTree(root, direction)

SpecDiamond == Init /\ [][NextDiamond]_vars

(* ------------------------------- C15 ---------------------------------- *)
\* The four edges of the diamond as merge_tree records them for a direction
DiamondEdges(direction) ==
    {TreeIds(direction, "U1", "U2"), TreeIds(direction, "U1", "U3"),
     TreeIds(direction, "U2", "U4"), TreeIds(direction, "U3", "U4")}

\* C15: merging a diamond tree (U4 a leaf or a placeholder in both positions)
\* into an empty collection succeeds and records exactly the four edges
\* U1-U2, U1-U3, U2-U4, U3-U4, each once; extract_tree from U1 in the tree's
\* direction then succeeds and returns the diamond with U4 under both U2 and U3.
C15_DiamondMerges ==
    (nops = 1 /\ op = "merge_tree" /\ arg.tree \in DiamondTrees)
    => /\ err = NoError
       /\ Len(relations) = 4
       /\ EdgesOf(relations) = DiamondEdges(arg.tree.direction)
       /\ extract_tree(Self, "U1", arg.tree.direction, {})
             = [raised |-> FALSE,
                tree |-> Diamond(arg.tree.direction, Leaf(arg.tree.direction, "U4", None))]

\* C15 witness: extract_tree(U1, DERIVED) returned the diamond from the
\* collection one merge of a DERIVED diamond tree leaves.
C15_Witness ==
    /\ nops = 2
    /\ op = "extract_tree"
    /\ arg = [root |-> "U1", direction |-> DERIVED]
    /\ ret = [raised |-> FALSE, tree |-> Diamond(DERIVED, Leaf(DERIVED, "U4", None))]
    /\ EdgesOf(relations) = DiamondEdges(DERIVED)
    /\ Keys(trees_idx) = {<<"U2", "U1">>, <<"U3", "U1">>}

(* ------------------------------- C19 ---------------------------------- *)
\* Some path that starts at root and follows the recorded relations in a
\* direction comes to an id a second time
PathRevisits(rels, root, direction) ==
    LET walk == Oriented(EdgesOf(rels), direction)
    IN \E id \in {root} \cup Reach(walk, root) : id \in Reach(walk, id)

\* An id is reached from root over two different children of root
ReachedOverTwoChildren(rels, root, direction) ==
    LET walk == Oriented(EdgesOf(rels), direction)
        kids == {e[2] : e \in {f \in walk : f[1] = root}}
    IN \E k1, k2 \in kids :
          k1 # k2 /\ ({k1} \cup Reach(walk, k1)) \cap ({k2} \cup Reach(walk, k2)) # {}

\* C19: extract_tree(root, direction) raises exactly when some path from root
\* in that direction comes to an id a second time; an id reached over two
\* branches, with no such path, does not make it raise.
C19_ExtractRaisesOnPathCycleOnly ==
    op = "extract_tree"
    => /\ ret.raised <=> PathRevisits(relations, arg.root, arg.direction)
       /\ (err # NoError) <=> ret.raised

\* C19 witness: extract_tree returned normally from a root with an id that is
\* reached over two of its children.
C19_Witness ==
    /\ op = "extract_tree"
    /\ ~ret.raised
    /\ err = NoError
    /\ ReachedOverTwoChildren(relations, arg.root, arg.direction)
    /\ ~PathRevisits(relations, arg.root, arg.direction)


(* ------------------- the constructor and its steps -------------------- *)
\* A fourth specification: a collection is built either by the constructor
\* from a tree and a collection to clone, or empty and then by merge and
\* merge_tree; a collection so built is then cloned by the constructor.
ConstructMerge(pool) ==
    /\ op = "init"
    /\ op' = "merge"
    /\ arg' = [pool |-> pool]
    /\ ret' = NoReturn
    /\ Becomes(merge(Self, pool))

ConstructMergeTree(tree, max_depth) ==
    /\ op \in {"init", "merge"}
    /\ err = NoError
    /\ op' = "merge_tree"
    /\ arg' = [tree |-> tree, max_depth |-> max_depth]
    /\ ret' = NoReturn
    /\ Becomes(merge_tree(Self, tree, FALSE, max_depth))

\* self = LineageRelations(tree, max_depth, clone); when the constructor
\* raises there is no new collection
Construct(has_tree, tree, max_depth, has_clone, clone) ==
    /\ op = "init"
    /\ op' = "construct"
    /\ arg' = [has_tree |-> has_tree, tree |-> tree, max_depth |-> max_depth,
               has_clone |-> has_clone, clone |-> clone]
    /\ ret' = NoReturn
    /\ LET built == LineageRelations(has_tree, tree, max_depth, has_clone, clone)
       IN IF built.err = NoError THEN Becomes(built)
          ELSE /\ err' = built.err
               /\ nraised' = nraised + 1
               /\ nops' = nops + 1
               /\ UNCHANGED fields

\* LineageRelations(clone=self)
CloneSelf ==
    /\ op \in {"merge", "merge_tree", "construct"}
    /\ op' = "clone"
    /\ arg' = NoReturn
    /\ LET built == LineageRelations(FALSE, Placeholder(SOURCES, "U1"), 0, TRUE, Self)
       IN /\ ret' = built
          /\ err' = built.err
          /\ nraised' = nraised + (IF built.err = NoError THEN 0 ELSE 1)
    /\ nops' = nops + 1
    /\ UNCHANGED fields

NextConstruct ==
    \/ \E pool \in PoolInputs : ConstructMerge(pool)
    \/ \E tree \in TreeInputs : \E max_depth \in DepthInputs(tree) :
           ConstructMergeTree(tree, max_depth)
    \/ \E tree \in TreeInputs : \E max_depth \in DepthInputs(tree) :
           \E clone \in PoolInputs : Construct(TRUE, tree, max_depth, TRUE, clone)
    \/ \E tree \in TreeInputs : \E max_depth \in DepthInputs(tree) :
           Construct(TRUE, tree, max_depth, FALSE, EmptyRelations)
    \/ \E clone \in PoolInputs : Construct(FALSE, Placeholder(SOURCES, "U1"), 0, TRUE, clone)
    \/ Construct(FALSE, Placeholder(SOURCES, "U1"), 0, FALSE, EmptyRelations)
    \/ CloneSelf

SpecConstruct == Init /\ [][NextConstruct]_vars

(* ------------------------------- C24 ---------------------------------- *)
\* A collection st is what the last call left of self, exception included
\* (when the call raised, only the exception is compared)
SameOutcome(st) ==
    /\ err' = st.err
    /\ st.err = NoError
          => /\ homes' = st.homes
             /\ relations_idx' = st.relations_idx
             /\ trees_idx' = st.trees_idx
             /\ relations' = st.relations
             /\ by_source' = st.by_source
             /\ by_derived' = st.by_derived
             /\ dataset_ids' = st.dataset_ids

\* C24: merge(clone) into an empty collection and then merge_tree(tree,
\* max_depth) end as LineageRelations(tree, max_depth, clone) does, in the
\* same state or with the same exception (and so without a clone, and
\* without a tree); and LineageRelations(clone=X), for X built by calls that
\* all succeeded, succeeds with the relations (in order), homes, known ids and
\* registered subtrees of X, and X is as it was.
C24_ConstructorIsMergeThenMergeTree ==
    [][/\ (op = "merge" /\ op' = "merge_tree")
            => SameOutcome(LineageRelations(TRUE, arg'.tree, arg'.max_depth, TRUE, arg.pool))
       /\ (op = "init" /\ op' = "merge_tree")
            => SameOutcome(LineageRelations(TRUE, arg'.tree, arg'.max_depth,
                                            FALSE, EmptyRelations))
       /\ (op = "init" /\ op' = "merge")
            => /\ SameOutcome(LineageRelations(FALSE, Placeholder(SOURCES, "U1"), 0,
                                               TRUE, arg'.pool))
               /\ err' # NoError
                     => \A tree \in TreeInputs :
                           LineageRelations(TRUE, tree, 0, TRUE, arg'.pool).err = err'
       /\ (op' = "clone" /\ nraised = 0)
            => /\ err' = NoError
               /\ ret'.relations = relations
               /\ ret'.homes = homes
               /\ ret'.dataset_ids = dataset_ids
               /\ ret'.trees_idx = trees_idx
               /\ UNCHANGED fields]_vars

\* C24 witness: a collection built by merge and then merge_tree, with two
\* relations, a home and a registered subtree, was cloned by the constructor.
C24_Witness ==
    /\ op = "clone"
    /\ err = NoError
    /\ nops = 3
    /\ Len(relations) >= 2
    /\ trees_idx # <<>>
    /\ \E i \in DOMAIN homes : homes[i][2] # None
    /\ ret.relations = relations
    /\ ret.trees_idx = trees_idx

(* ------------------------ LineageTree.from_eo3_doc -------------------- *)
\* from_eo3_doc with sources {} taken for sources None
from_eo3_doc_without_empty(dsid, direction, sources, home) ==
    LineageTree(direction, dsid,
        IF sources.is_none \/ sources.items = <<>> THEN ChildrenNone
        ELSE ChildrenDict(
                 [i \in DOMAIN sources.items |->
                     <<sources.items[i][1],
                       [j \in DOMAIN sources.items[i][2] |->
                           LineageTree(direction, sources.items[i][2][j],
                                       ChildrenNone, home)]>>]),
        None)

\* LineageTree.from_eo3_doc; sources is None or a dict of classifier to a list
\* of ids, taken as children are. home goes to the children; the root is built
\* without one.
from_eo3_doc(dsid, direction, sources, home) ==
    LineageTree(direction, dsid,
        IF sources.is_none THEN ChildrenNone
        ELSE ChildrenDict(
                 [i \in DOMAIN sources.items |->
                     <<sources.items[i][1],
                       [j \in DOMAIN sources.items[i][2] |->
                           LineageTree(direction, sources.items[i][2][j],
                                       ChildrenNone, home)]>>]),
        None)

\* sources arguments: None, {}, one classifier with no, one or two ids (in
\* either order, or one id twice), and two classifiers in either order
SourcesInputs ==
    {ChildrenNone, ChildrenEmpty,
     ChildrenDict(<< <<"nbar", <<>>>> >>)}
    \cup {ChildrenDict(<< <<c, <<i>>>> >>) : c \in Classifiers, i \in Ids}
    \cup {ChildrenDict(<< <<"nbar", <<i, j>>>> >>) : i \in Ids, j \in Ids}
    \cup {ChildrenDict(<< <<p[1], <<"U2">>>>, <<p[2], <<"U3", "U2">>>> >>) :
             p \in {q \in Classifiers \X Classifiers : q[1] # q[2]}}

\* A caller about to build a tree from a document
InitFromDoc ==
    /\ homes = <<>>
    /\ relations_idx = <<>>
    /\ trees_idx = <<>>
    /\ relations = <<>>
    /\ by_source = <<>>
    /\ by_derived = <<>>
    /\ dataset_ids = {}
    /\ op = "doc"
    /\ arg \in [dsid : Ids, direction : Directions, sources : SourcesInputs,
                home : HomeValues]
    /\ ret = NoReturn
    /\ err = NoError
    /\ nops = 0
    /\ nraised = 0

FromEo3Doc ==
    /\ op = "doc"
    /\ op' = "from_eo3_doc"
    /\ ret' = from_eo3_doc(arg.dsid, arg.direction, arg.sources, arg.home)
    /\ nops' = nops + 1
    /\ UNCHANGED <<arg, err, nraised>>
    /\ UNCHANGED fields

\* The collection built from the tree, LineageRelations(tree); when the
\* constructor raises there is no collection
ConstructFromDoc ==
    /\ op = "from_eo3_doc"
    /\ op' = "construct_from_doc"
    /\ LET built == NewFromTree(ret, 0)
       IN IF built.err = NoError THEN Becomes(built)
          ELSE /\ err' = built.err
               /\ nraised' = nraised + 1
               /\ nops' = nops + 1
               /\ UNCHANGED fields
    /\ UNCHANGED <<arg, ret>>

NextFromDoc == FromEo3Doc \/ ConstructFromDoc

SpecFromDoc == InitFromDoc /\ [][NextFromDoc]_vars

(* ------------------------------- C40 ---------------------------------- *)
\* C40: from_eo3_doc gives a root with the dsid and the direction given and
\* with children None for sources None, children {} for sources {}, and for
\* other sources the classifiers of sources in their order, each with one
\* child per id listed, in the order listed, of the direction of the root and
\* with children None.
C40_FromDocKeepsThreeStates ==
    op = "from_eo3_doc"
    => /\ ret.dataset_id = arg.dsid
       /\ ret.direction = arg.direction
       /\ arg.sources.is_none <=> ret.children.is_none
       /\ (~arg.sources.is_none /\ arg.sources.items = <<>>) => ret.children = ChildrenEmpty
       /\ ~arg.sources.is_none
            => /\ Len(ret.children.items) = Len(arg.sources.items)
               /\ \A i \in DOMAIN arg.sources.items :
                     LET ders == arg.sources.items[i][2]
                         kids == ret.children.items[i][2]
                     IN /\ ret.children.items[i][1] = arg.sources.items[i][1]
                        /\ Len(kids) = Len(ders)
                        /\ \A j \in DOMAIN ders :
                              /\ kids[j].dataset_id = ders[j]
                              /\ kids[j].direction = arg.direction
                              /\ kids[j].children = ChildrenNone

\* C40 witness: a DERIVED tree built from two classifiers, one listing U3
\* before U2.
C40_Witness ==
    /\ op = "from_eo3_doc"
    /\ arg.direction = DERIVED
    /\ Len(arg.sources.items) = 2
    /\ ret.children.items[2][2][1].dataset_id = "U3"
    /\ ret.children.items[2][2][2].dataset_id = "U2"
    /\ ret.children.items[2][2][2].direction = DERIVED
    /\ ret.children.items[2][2][2].children.is_none

(* ------------- extract_tree and merge_tree, call by call -------------- *)
\* The two methods as the interpreter runs them: ret is the stack of the
\* calls of extract_tree and merge_tree in progress (the last the innermost),
\* arg the outermost call with the collection it started on, nops the number
\* of calls made so far, op "running" until the outermost call has returned
\* ("returned") or an exception has left it ("raised").

\* Limit on the calls in progress at once.
MaxStack == 9

\* A call of merge_tree at its first statement
MergeFrame(tree, has_parent, max_depth) ==
    [kind |-> "merge_tree", pc |-> "start", tree |-> tree, has_parent |-> has_parent,
     max_depth |-> max_depth, kids |-> <<>>,
     root |-> tree.dataset_id, direction |-> tree.direction, so_far |-> {}, todo |-> <<>>]

\* A call of extract_tree at its first statement
ExtractFrame(root, direction, so_far) ==
    [kind |-> "extract_tree", pc |-> "start", tree |-> Placeholder(direction, root),
     has_parent |-> FALSE, max_depth |-> 0, kids |-> <<>>,
     root |-> root, direction |-> direction, so_far |-> so_far, todo |-> <<>>]

\* Collections a call can start on: empty, a merged chain, two relations
\* closing a cycle (the second was rejected and stays recorded), a self-loop,
\* and U3 reached from U1 directly and over U2
WalkCollections ==
    {EmptyRelations,
     NewFromTree(OneChild(SOURCES, "U1", "nbar",
                     OneChild(SOURCES, "U2", "nbar", Leaf(SOURCES, "U3", None), None),
                     None), 0),
     Raise(merge_new_lineage_relation(
               merge_new_lineage_relation(EmptyRelations, LineageRelation("nbar", "U1", "U2")),
               LineageRelation("nbar", "U2", "U1")), NoError),
     merge_new_lineage_relation(EmptyRelations, LineageRelation("nbar", "U3", "U3")),
     merge_new_lineage_relation(
         merge_new_lineage_relation(
             merge_new_lineage_relation(EmptyRelations, LineageRelation("nbar", "U1", "U2")),
             LineageRelation("nbar", "U1", "U3")),
         LineageRelation("nbar", "U2", "U3"))}

WalkCalls ==
    {[call |-> "extract_tree", root |-> root, direction |-> direction,
      tree |-> Placeholder(direction, root), max_depth |-> 0] :
        root \in Ids, direction \in Directions}
    \cup {[call |-> "merge_tree", root |-> tree.dataset_id, direction |-> tree.direction,
           tree |-> tree, max_depth |-> 0] : tree \in TreeInputs}
    \cup {[call |-> "merge_tree", root |-> tree.dataset_id, direction |-> tree.direction,
           tree |-> tree, max_depth |-> 1] : tree \in {t \in TreeInputs : 1 \in DepthInputs(t)}}

InitWalk ==
    \E start \in WalkCollections, c \in WalkCalls :
        /\ homes = start.homes
        /\ relations_idx = start.relations_idx
        /\ trees_idx = start.trees_idx
        /\ relations = start.relations
        /\ by_source = start.by_source
        /\ by_derived = start.by_derived
        /\ dataset_ids = start.dataset_ids
        /\ op = "running"
        /\ arg = [call |-> c.call, root |-> c.root, direction |-> c.direction,
                  tree |-> c.tree, max_depth |-> c.max_depth, start |-> start]
        /\ ret = <<IF c.call = "extract_tree"
                   THEN ExtractFrame(c.root, c.direction, {})
                   ELSE MergeFrame(c.tree, FALSE, c.max_depth)>>
        /\ err = NoError
        /\ nops = 1
        /\ nraised = 0

\* The innermost call, and the stack with it changed, left, or calling
Top == ret[Len(ret)]
WithTop(frame) == [ret EXCEPT ![Len(ret)] = frame]
Popped == SubSeq(ret, 1, Len(ret) - 1)

\* The innermost call goes on as frame
WalkGoesOn(frame) ==
    /\ ret' = WithTop(frame)
    /\ UNCHANGED <<op, arg, err, nops, nraised>>

\* The innermost call calls callee, to go on as frame when callee has returned
WalkInvokes(frame, callee) ==
    /\ Len(ret) < MaxStack
    /\ ret' = Append(WithTop(frame), callee)
    /\ nops' = nops + 1
    /\ UNCHANGED <<op, arg, err, nraised>>

\* The innermost call returns
WalkReturns ==
    /\ ret' = Popped
    /\ op' = IF Len(ret) = 1 THEN "returned" ELSE op
    /\ UNCHANGED <<arg, err, nops, nraised>>

\* An exception: no method catches it, so it leaves every call in progress
WalkRaises(kind) ==
    /\ ret' = <<>>
    /\ op' = "raised"
    /\ err' = kind
    /\ nraised' = nraised + 1
    /\ UNCHANGED <<arg, nops>>

\* extract_tree without the test of root against so_far
WalkExtractEnterUnchecked ==
    /\ op = "running"
    /\ Top.kind = "extract_tree" /\ Top.pc = "start"
    /\ WalkGoesOn([Top EXCEPT !.pc = "loop",
                              !.so_far = @ \cup {Top.root},
                              !.todo = Subtrees(Self, Top.root, Top.direction)])
    /\ UNCHANGED fields

\* extract_tree from its first statement to its loop
WalkExtractEnter ==
    /\ op = "running"
    /\ Top.kind = "extract_tree" /\ Top.pc = "start"
    /\ IF Top.root \in Top.so_far
       THEN WalkRaises("CyclicGraph")
       ELSE WalkGoesOn([Top EXCEPT !.pc = "loop",
                                   !.so_far = @ \cup {Top.root},
                                   !.todo = Subtrees(Self, Top.root, Top.direction)])
    /\ UNCHANGED fields

\* extract_tree calls itself for the next entry of subtrees with a copy of so_far
WalkExtractDescend ==
    /\ op = "running"
    /\ Top.kind = "extract_tree" /\ Top.pc = "loop" /\ Top.todo # <<>>
    /\ WalkInvokes([Top EXCEPT !.todo = Tail(@)],
                  ExtractFrame(Top.todo[1][1], Top.direction, Top.so_far))
    /\ UNCHANGED fields

\* extract_tree returns its tree after the loop
WalkExtractReturn ==
    /\ op = "running"
    /\ Top.kind = "extract_tree" /\ Top.pc = "loop" /\ Top.todo = <<>>
    /\ WalkReturns
    /\ UNCHANGED fields

\* merge_tree from its first statement to the call of extract_tree for a node
\* without children, or to its loop
WalkMergeEnter ==
    /\ op = "running"
    /\ Top.kind = "merge_tree" /\ Top.pc = "start"
    /\ LET tree == Top.tree
           homed == merge_new_home(Self, tree.dataset_id, tree.home)
       IN IF child_datasets(tree).raised
          THEN WalkRaises("CyclicTree") /\ UNCHANGED fields
          ELSE IF homed.err # NoError
          THEN WalkRaises(homed.err) /\ UNCHANGED fields
          ELSE /\ homes' = homed.homes
               /\ UNCHANGED <<relations_idx, trees_idx, relations, by_source,
                              by_derived, dataset_ids>>
               /\ IF ~HasChildren(tree)
                  THEN WalkInvokes([Top EXCEPT !.pc = "after_check"],
                                  ExtractFrame(tree.dataset_id, opposite(tree.direction), {}))
                  ELSE WalkGoesOn([Top EXCEPT !.pc = "loop", !.kids = ChildList(tree)])

\* merge_tree after extract_tree has returned for a node without children
WalkMergeAfterCheck ==
    /\ op = "running"
    /\ Top.kind = "merge_tree" /\ Top.pc = "after_check"
    /\ IF Top.tree.children.is_none
       THEN WalkReturns
       ELSE WalkGoesOn([Top EXCEPT !.pc = "loop", !.kids = ChildList(Top.tree)])
    /\ UNCHANGED fields

\* The pair and the relation of the child the loop of merge_tree is at
WalkIds == TreeIds(Top.tree.direction, Top.tree.dataset_id, Top.kids[1][2].dataset_id)
WalkRel == LineageRelation(Top.kids[1][1], WalkIds[1], WalkIds[2])

\* The loop of merge_tree takes the next child: the direction test and
\* merge_new_lineage_relation up to its first call of extract_tree
WalkMergeChild ==
    /\ op = "running"
    /\ Top.kind = "merge_tree" /\ Top.pc = "loop" /\ Top.kids # <<>>
    /\ LET rel == WalkRel
       IN IF Top.kids[1][2].direction # Top.tree.direction
          THEN WalkRaises("MixedDirection") /\ UNCHANGED fields
          ELSE IF Has(relations_idx, WalkIds)
          THEN /\ IF Get(relations_idx, WalkIds) # rel.classifier
                  THEN WalkRaises("InconsistentClassifier")
                  ELSE WalkGoesOn([Top EXCEPT !.pc = "node"])
               /\ UNCHANGED fields
          ELSE /\ relations_idx' = Put(relations_idx, WalkIds, rel.classifier)
               /\ relations' = Append(relations, rel)
               /\ by_source' = PutNested(by_source, rel.source_id, rel.derived_id,
                                         rel.classifier)
               /\ by_derived' = PutNested(by_derived, rel.derived_id, rel.source_id,
                                          rel.classifier)
               /\ UNCHANGED <<homes, trees_idx>>
               /\ IF {rel.source_id, rel.derived_id} \cap dataset_ids # {}
                  THEN /\ WalkInvokes([Top EXCEPT !.pc = "second_check"],
                                     ExtractFrame(rel.derived_id, SOURCES, {}))
                       /\ UNCHANGED dataset_ids
                  ELSE /\ WalkGoesOn([Top EXCEPT !.pc = "node"])
                       /\ dataset_ids' = dataset_ids \cup {rel.source_id, rel.derived_id}

\* merge_new_lineage_relation calls extract_tree the second time
WalkMergeSecondCheck ==
    /\ op = "running"
    /\ Top.kind = "merge_tree" /\ Top.pc = "second_check"
    /\ WalkInvokes([Top EXCEPT !.pc = "checked"],
                  ExtractFrame(WalkRel.source_id, DERIVED, {}))
    /\ UNCHANGED fields

\* merge_new_lineage_relation after both calls of extract_tree
WalkMergeChecked ==
    /\ op = "running"
    /\ Top.kind = "merge_tree" /\ Top.pc = "checked"
    /\ WalkGoesOn([Top EXCEPT !.pc = "node"])
    /\ dataset_ids' = dataset_ids \cup {WalkRel.source_id, WalkRel.derived_id}
    /\ UNCHANGED <<homes, relations_idx, trees_idx, relations, by_source, by_derived>>

\* _merge_new_node, and merge_tree calling itself for the child
WalkMergeNode ==
    /\ op = "running"
    /\ Top.kind = "merge_tree" /\ Top.pc = "node"
    /\ LET child == Top.kids[1][2]
           noded == merge_new_node(Self, WalkIds, child)
           next == [Top EXCEPT !.pc = "loop", !.kids = Tail(@)]
       IN IF noded.err # NoError
          THEN WalkRaises(noded.err) /\ UNCHANGED fields
          ELSE /\ trees_idx' = noded.trees_idx
               /\ UNCHANGED <<homes, relations_idx, relations, by_source, by_derived,
                              dataset_ids>>
               /\ IF Recurse(Top.has_parent, Top.max_depth)
                  THEN WalkInvokes(next, MergeFrame(child, TRUE,
                                      NextMaxDepth(Top.has_parent, Top.max_depth)))
                  ELSE WalkGoesOn(next)

\* merge_tree returns after its loop
WalkMergeReturn ==
    /\ op = "running"
    /\ Top.kind = "merge_tree" /\ Top.pc = "loop" /\ Top.kids = <<>>
    /\ WalkReturns
    /\ UNCHANGED fields

NextWalk ==
    \/ WalkExtractEnter
    \/ WalkExtractDescend
    \/ WalkExtractReturn
    \/ WalkMergeEnter
    \/ WalkMergeAfterCheck
    \/ WalkMergeChild
    \/ WalkMergeSecondCheck
    \/ WalkMergeChecked
    \/ WalkMergeNode
    \/ WalkMergeReturn

\* The interpreter goes on while a call is in progress
SpecWalk == InitWalk /\ [][NextWalk]_vars /\ WF_vars(NextWalk)

(* ------------------------------- C37 ---------------------------------- *)
\* The outermost call has returned or an exception has left it
WalkFinished == op \in {"returned", "raised"}

\* The outcome is the one of the method taken as a whole
WalkAgrees ==
    IF arg.call = "extract_tree"
    THEN /\ (op = "raised") <=> extract_tree(arg.start, arg.root, arg.direction, {}).raised
         /\ [Self EXCEPT !.err = NoError] = arg.start
    ELSE [Self EXCEPT !.err = err] = merge_tree(arg.start, arg.tree, FALSE, arg.max_depth)

\* C37: every call of extract_tree, also on a collection whose edges hold a
\* cycle, and every call of merge_tree on a finite tree comes to its end: it
\* returns or raises after finitely many calls, never more than MaxStack - 1
\* of them in progress at once, with the outcome of the method as a whole.
C37_WalksTerminate ==
    /\ <>WalkFinished
    /\ [](Len(ret) < MaxStack)
    /\ [](WalkFinished => WalkAgrees)

\* C37 witness: extract_tree on the collection with U1 -> U2 and U2 -> U1
\* raised in its third call.
C37_Witness ==
    /\ op = "raised"
    /\ arg.call = "extract_tree"
    /\ ~Acyclic(EdgesOf(relations))
    /\ nops = 3
    /\ err = "CyclicGraph"

====
